---- MODULE Spec2Model ----
(***************************************************************************)
(* Bot_ORB_Gamma: the trading engine's state machine (core/engine.py),     *)
(* the broker connector with its request-id allocator and blocking calls   *)
(* (ib_client/connector.py), the order lifecycle manager                   *)
(* (execution/order_manager.py), and the breakout detector                 *)
(* (strategy/breakout.py).                                                 *)
(*                                                                         *)
(* Option prices are integers in cents, the prices of the detector's bars  *)
(* are index points.  A Python None is the value NoId (ids) or 0 (prices:  *)
(* the code stores only positive prices).                                  *)
(*                                                                         *)
(* The module holds several specifications over the same variables:        *)
(*   AllocSpec    the request-id allocator under concurrent callers        *)
(*   OMSpec       the order manager: place_trade, status events,           *)
(*                manage_open_positions                                    *)
(*   EngineSpec   the engine's run loop with the broker's bar feeds        *)
(*   CallFairSpec the blocking calls of the correlation layer, with a      *)
(*                foreground thread that keeps running                     *)
(*   EngineFairSpec  EngineSpec with an engine thread that keeps running   *)
(*                and historical data answers that end                     *)
(*   BreakoutSpec the breakout detector fed with 5-second bars             *)
(***************************************************************************)
EXTENDS Integers, Sequences, FiniteSets, TLC

(***************************************************************************)
(* Bounds of the model.                                                    *)
(***************************************************************************)
MaxSeed == 1
MaxCalls == 3
MaxConnects == 2
MaxRequestId == 10
MaxQueue == 1
MaxShutdowns == 3
MaxTimestamp == 65

\* Python's None where an id is expected (get_next_request_id itself
\* returns -1 when the connector is not connected).
NoId == 0 - 2
NotConnectedId == 0 - 1

Threads == {"t1", "t2"}
Counts == {1, 3}
Seeds == 1..MaxSeed

VARIABLES
    \* ---- IBConnector ----
    is_connected,      \* IBConnector._is_connected
    next_request_id,   \* IBConnector._next_request_id
    request_id_lock,   \* IBConnector._request_id_lock: "free" or its holder
    conn_pc,           \* position of a connect() call in _wait_for_connection
    connects,          \* number of nextValidId seeds taken so far (epoch)
    epoch_seed,        \* the seed of the current epoch
    \* ---- callers of get_next_request_id, one per thread ----
    tpc,               \* position of each thread inside get_next_request_id
    tcount,            \* the call's count argument
    current_id,        \* the call's local current_id
    treg,              \* the value loaded by `self._next_request_id += count`
    issued,            \* every block handed out, in order of reservation
    calls,             \* number of get_next_request_id calls started
    \* ---- OrderManager ----
    active_positions,   \* OrderManager.active_positions: parent order id -> position
    order_status_queue, \* IBWrapper.order_status_queue, fed by the broker thread
    submitted,          \* the orders the running handler has passed to place_order
    last_op,            \* the OrderManager handler that ran last
    mpc,                \* position inside manage_open_positions
    closed,             \* history: the positions removed so far (parent, tp, sl), in order
    parent_fills,       \* history: per parent, the prices of its 'Filled' events drained
    \* ---- Engine ----
    state,                 \* Engine.state
    epc,                   \* position of run(): constructed, loop, connecting, range,
                           \*   monitor, raised (an exception leaves the loop), done
    rt_bars_req_id,        \* Engine.rt_bars_req_id
    breakout_signal,       \* Engine.breakout_signal ("NONE": None)
    option_expiration,     \* Engine.option_expiration ("": None)
    req_id,                \* the req_id local of _state_get_opening_range
    bars_received,         \* are there bars in its bars_received list
    historical_data_queue, \* IBWrapper.historical_data_queue: <<reqId, data>>
    realtime_bar_queue,    \* IBWrapper.realtime_bar_queue: <<reqId, bar>>
    hist_pending,          \* broker: historical requests not yet answered to the end
    subscriptions,         \* broker: the real-time bar subscriptions that are active
    last_accepted,         \* history: <<id the engine waited for, id of the item it used>>
    trade_due,             \* history: _state_execute_trade found all three set
    placements,            \* history: number of times place_trade's body has run
    link_up,               \* broker: the socket to the engine's client is open
    shutdown_log,          \* history: one record per shutdown() call, in order
    collected,             \* history: the request ids of the bars in bars_received
    orb_bars,              \* history: the request ids of the bars handed to add_bar
    orb_computed,          \* history: number of times orb_high/orb_low were assigned
    gex_analysed,          \* history: <<provider type, outcome>> of each GEX analysis
    \* ---- a blocking call of the correlation layer, made by the foreground thread ----
    call_kind,             \* the call that is running ("none": none)
    call_req_id,           \* its req_id local
    call_phase,            \* resolve_contract_details: "first" wait or the "rest"
    call_details,          \* resolve_contract_details: its details local
    returned,              \* what the last call returned
    contract_details_queue,   \* IBWrapper.contract_details_queue: <<reqId, details>>
    tick_price_queue,         \* IBWrapper.tick_price_queue: <<reqId, tickType>>
    position_queue,           \* IBWrapper.position_queue: a position or the sentinel
    sec_def_opt_params_queue, \* IBWrapper.sec_def_opt_params_queue: <<reqId, params>>
    requested,             \* broker: per kind of request, the ids it was asked under
    \* ---- BreakoutStrategy ----
    five_second_bars,      \* BreakoutStrategy.five_second_bars
    signal,                \* what the last add_realtime_bar call returned
    last_bar,              \* the bar the last add_realtime_bar call was given
    \* ---- OrderManager's pure helpers ----
    helper_call,           \* the arguments of the helper call under check
    helper_result,         \* what the call returned
    \* ---- IBConnector.fetch_market_price ----
    tick_size_queue,       \* IBWrapper.tick_size_queue: <<reqId, tickType>>
    snap_pc,               \* position of the fetch_market_price call
    snap_req_id,           \* its req_id local
    snap_market_data,      \* its market_data local: the keys it holds
    end_time,              \* its end_time local
    now,                   \* time.time(), in half poll intervals since the call began
    snap_requested,        \* broker: the ids market data was requested under
    snapshot               \* what the fetch_market_price call returned

connVars == <<is_connected, next_request_id, request_id_lock, conn_pc, connects, epoch_seed>>
threadVars == <<tpc, tcount, current_id, treg, issued, calls>>
omVars == <<active_positions, order_status_queue, submitted, last_op, mpc, closed,
            parent_fills>>
rangeHistory == <<collected, orb_bars, orb_computed>>
engVars == <<state, epc, rt_bars_req_id, breakout_signal, option_expiration, req_id,
             bars_received, historical_data_queue, realtime_bar_queue, hist_pending,
             subscriptions, last_accepted, trade_due, placements, link_up,
             shutdown_log, rangeHistory, gex_analysed>>
engOther == <<state, epc, rt_bars_req_id, breakout_signal, option_expiration, req_id,
              bars_received, historical_data_queue, realtime_bar_queue, hist_pending,
              subscriptions, trade_due, placements, link_up, shutdown_log,
              rangeHistory, gex_analysed>>
callQueues == <<contract_details_queue, tick_price_queue, position_queue,
                sec_def_opt_params_queue>>
callVars == <<call_kind, call_req_id, call_phase, call_details, returned, callQueues,
              requested>>
breakoutVars == <<five_second_bars, signal, last_bar>>
helperVars == <<helper_call, helper_result>>
snapVars == <<tick_size_queue, snap_pc, snap_req_id, snap_market_data, end_time, now,
              snap_requested, snapshot>>
vars == <<connVars, threadVars, omVars, engVars, callVars, breakoutVars, helperVars, snapVars>>

(***************************************************************************)
(* IBConnector.__init__                                                    *)
(***************************************************************************)
ConnInit ==
    /\ is_connected = FALSE
    /\ next_request_id = 0
    /\ request_id_lock = "free"
    /\ conn_pc = "idle"
    /\ connects = 0
    /\ epoch_seed = 0

ThreadInit ==
    /\ tpc = [t \in Threads |-> "idle"]
    /\ tcount = [t \in Threads |-> 0]
    /\ current_id = [t \in Threads |-> NoId]
    /\ treg = [t \in Threads |-> 0]
    /\ issued = <<>>
    /\ calls = 0

(***************************************************************************)
(* IBConnector._wait_for_connection: the nextValidId the broker sends is   *)
(* stored as the counter under the lock, then the connector is marked      *)
(* connected.  The seed is the broker's input.                             *)
(***************************************************************************)
SeedCounter(seed) ==
    /\ conn_pc = "idle"
    /\ ~is_connected
    /\ connects < MaxConnects
    /\ request_id_lock = "free"
    /\ next_request_id' = seed
    /\ epoch_seed' = seed
    /\ connects' = connects + 1
    /\ conn_pc' = "seeded"
    /\ UNCHANGED <<is_connected, request_id_lock>>

MarkConnected ==
    /\ conn_pc = "seeded"
    /\ is_connected' = TRUE
    /\ conn_pc' = "idle"
    /\ UNCHANGED <<next_request_id, request_id_lock, connects, epoch_seed>>

(***************************************************************************)
(* IBConnector.disconnect                                                  *)
(***************************************************************************)
Disconnect ==
    /\ conn_pc = "idle"
    /\ is_connected
    /\ is_connected' = FALSE
    /\ UNCHANGED <<next_request_id, request_id_lock, conn_pc, connects, epoch_seed>>

(***************************************************************************)
(* IBConnector.get_next_request_id(count), statement by statement.         *)
(***************************************************************************)
LockAvailableUnguarded(t) == TRUE

\* `with self._request_id_lock:` can be entered
LockAvailable(t) == request_id_lock = "free"

\* the call starts; `if not self.is_connected(): return -1`
GetIdCall(t, count) ==
    /\ tpc[t] = "idle"
    /\ calls < MaxCalls
    /\ calls' = calls + 1
    /\ tcount' = [tcount EXCEPT ![t] = count]
    /\ IF is_connected
         THEN tpc' = [tpc EXCEPT ![t] = "acquire"] /\ UNCHANGED current_id
         ELSE tpc' = tpc /\ current_id' = [current_id EXCEPT ![t] = NotConnectedId]
    /\ UNCHANGED <<treg, issued>>
    /\ UNCHANGED connVars

GetIdAcquire(t) ==
    /\ tpc[t] = "acquire"
    /\ LockAvailable(t)
    /\ request_id_lock' = t
    /\ tpc' = [tpc EXCEPT ![t] = "read"]
    /\ UNCHANGED <<tcount, current_id, treg, issued, calls>>
    /\ UNCHANGED <<is_connected, next_request_id, conn_pc, connects, epoch_seed>>

\* current_id = self._next_request_id
GetIdRead(t) ==
    /\ tpc[t] = "read"
    /\ current_id' = [current_id EXCEPT ![t] = next_request_id]
    /\ issued' = Append(issued, [id |-> next_request_id, count |-> tcount[t],
                                 epoch |-> connects, by |-> t])
    /\ tpc' = [tpc EXCEPT ![t] = "load"]
    /\ UNCHANGED <<tcount, treg, calls>>
    /\ UNCHANGED connVars

\* self._next_request_id += count: the load
GetIdLoad(t) ==
    /\ tpc[t] = "load"
    /\ treg' = [treg EXCEPT ![t] = next_request_id]
    /\ tpc' = [tpc EXCEPT ![t] = "store"]
    /\ UNCHANGED <<tcount, current_id, issued, calls>>
    /\ UNCHANGED connVars

\* self._next_request_id += count: the store; then the lock is released and
\* current_id returned
GetIdStore(t) ==
    /\ tpc[t] = "store"
    /\ next_request_id' = treg[t] + tcount[t]
    /\ request_id_lock' = "free"
    /\ tpc' = [tpc EXCEPT ![t] = "idle"]
    /\ UNCHANGED <<tcount, current_id, treg, issued, calls>>
    /\ UNCHANGED <<is_connected, conn_pc, connects, epoch_seed>>

(***************************************************************************)
(* get_next_request_id as the foreground thread alone calls it: the id it  *)
(* returns and the counter it leaves.                                      *)
(***************************************************************************)
ReservedId(count) == IF is_connected THEN next_request_id ELSE NotConnectedId

CounterAfter(counter, count) == IF is_connected THEN counter + count ELSE counter

(***************************************************************************)
(* OrderManager: configuration (APP_CONFIG.trade_management,               *)
(* APP_CONFIG.trade_execution), with the values the tests configure.       *)
(***************************************************************************)
TakeProfitPct == 50
StopLossPct == 20
ActivationPct == 10
TrailPct == 10
TotalQuantity == 2

\* order statuses the broker reports (ibapi's order states)
Statuses == {"Submitted", "Filled", "Cancelled", "ApiCancelled", "Inactive"}

TerminalStatesWithoutInactive == {"Filled", "Cancelled", "ApiCancelled"}

\* _check_for_updates: terminal_states
TerminalStates == {"Filled", "Cancelled", "ApiCancelled", "Inactive"}

(***************************************************************************)
(* Price arithmetic.  A price is a number of cents; a raw price (a price   *)
(* times a percentage) is a number of hundredths of a cent.                *)
(***************************************************************************)
\* Decimal.to_integral_value(rounding=ROUND_HALF_EVEN) of n / d
HalfEvenDiv(n, d) ==
    LET q == n \div d
        r == n % d
    IN  IF 2 * r < d THEN q
        ELSE IF 2 * r > d THEN q + 1
        ELSE IF q % 2 = 0 THEN q ELSE q + 1

\* OrderManager._round_to_tick_size, on a price in cents
RoundToTickSize(price, tick_size) ==
    IF tick_size <= 0 THEN price
    ELSE HalfEvenDiv(price, tick_size) * tick_size

\* Decimal.to_integral_value(rounding=ROUND_DOWN) of n / d: towards zero
TruncDiv(n, d) == IF n >= 0 THEN n \div d ELSE 0 - ((0 - n) \div d)

\* _round_down_to_tick rounding to the nearest tick instead
RoundNearestToTick(raw, tick_size) ==
    IF tick_size <= 0 THEN HalfEvenDiv(raw, 100)
    ELSE HalfEvenDiv(raw, tick_size * 100) * tick_size

\* OrderManager._round_down_to_tick, on a raw price
RoundDownToTick(raw, tick_size) ==
    IF tick_size <= 0 THEN HalfEvenDiv(raw, 100)
    ELSE TruncDiv(raw, tick_size * 100) * tick_size

\* OrderManager._get_spx_tick_size, on a raw price: 0.05 below 3.00, else 0.10
GetSpxTickSize(raw) == IF raw < 30000 THEN 5 ELSE 10

(***************************************************************************)
(* OrderManager._create_bracket_orders and the parent of place_trade.      *)
(* An order is ibapi's Order with the fields the code sets; parentId 0 and *)
(* prices 0 are Order()'s defaults.                                        *)
(***************************************************************************)
ParentOrder(parent_order_id, option_price, entry_tick_size) ==
    [orderId |-> parent_order_id, parentId |-> 0, action |-> "BUY",
     orderType |-> "LMT", lmtPrice |-> RoundToTickSize(option_price, entry_tick_size),
     auxPrice |-> 0, totalQuantity |-> TotalQuantity, tif |-> "DAY",
     transmit |-> FALSE]

\* _create_bracket_orders with the stop-loss price left as rounded
StopLossPriceAsRounded(entry_price, stop_loss_pct) ==
    LET sl_price_raw == entry_price * (100 - stop_loss_pct)
    IN  RoundDownToTick(sl_price_raw, GetSpxTickSize(sl_price_raw))

\* tp_price_sanitized and sl_price_sanitized of _create_bracket_orders, for
\* the percentages configured
TakeProfitPriceAt(entry_price, take_profit_pct) ==
    LET tp_price_raw == entry_price * (100 + take_profit_pct)
    IN  RoundDownToTick(tp_price_raw, GetSpxTickSize(tp_price_raw))

StopLossPriceAt(entry_price, stop_loss_pct) ==
    LET sl_price_raw == entry_price * (100 - stop_loss_pct)
        sl_tick_size == GetSpxTickSize(sl_price_raw)
        sl_price_sanitized == RoundDownToTick(sl_price_raw, sl_tick_size)
    IN  IF sl_price_sanitized >= entry_price
          THEN sl_price_sanitized - sl_tick_size
          ELSE sl_price_sanitized

TakeProfitPrice(entry_price) == TakeProfitPriceAt(entry_price, TakeProfitPct)

StopLossPrice(entry_price) == StopLossPriceAt(entry_price, StopLossPct)

TakeProfitOrderTransmitted(parent_order_id, tp_order_id, entry_price, quantity) ==
    [orderId |-> tp_order_id, parentId |-> parent_order_id, action |-> "SELL",
     orderType |-> "LMT", lmtPrice |-> TakeProfitPrice(entry_price), auxPrice |-> 0,
     totalQuantity |-> quantity, tif |-> "GTC", transmit |-> TRUE]

TakeProfitOrder(parent_order_id, tp_order_id, entry_price, quantity) ==
    [orderId |-> tp_order_id, parentId |-> parent_order_id, action |-> "SELL",
     orderType |-> "LMT", lmtPrice |-> TakeProfitPrice(entry_price), auxPrice |-> 0,
     totalQuantity |-> quantity, tif |-> "GTC", transmit |-> FALSE]

StopLossOrder(parent_order_id, sl_order_id, entry_price, quantity) ==
    [orderId |-> sl_order_id, parentId |-> parent_order_id, action |-> "SELL",
     orderType |-> "STP", lmtPrice |-> 0, auxPrice |-> StopLossPrice(entry_price),
     totalQuantity |-> quantity, tif |-> "GTC", transmit |-> TRUE]

\* the (take_profit_order, stop_loss_order) pair, or <<>> for None
CreateBracketOrders(parent_order_id, tp_order_id, sl_order_id, entry_price, quantity, action) ==
    IF action # "BUY" THEN <<>>
    ELSE << TakeProfitOrder(parent_order_id, tp_order_id, entry_price, quantity),
            StopLossOrder(parent_order_id, sl_order_id, entry_price, quantity) >>

(***************************************************************************)
(* OrderManager.__init__                                                   *)
(***************************************************************************)
OMInit ==
    /\ active_positions = <<>>
    /\ order_status_queue = <<>>
    /\ submitted = <<>>
    /\ last_op = "none"
    /\ mpc = "idle"
    /\ closed = <<>>
    /\ parent_fills = <<>>

\* f with key k bound to v
Bind(f, k, v) == [x \in DOMAIN f \cup {k} |-> IF x = k THEN v ELSE f[x]]

\* f without key k
Unbind(f, k) == [x \in DOMAIN f \ {k} |-> f[x]]

(***************************************************************************)
(* Inputs of the order manager's handlers.                                 *)
(***************************************************************************)
\* resolve_contract_details returned None
NoDetails == 0 - 1
\* the ATM strike place_trade selects (0: none), the minTick of the resolved
\* contract (0: invalid), the option price _fetch_option_price returns (0: None)
AtmStrikes == {0, 450}
MinTicks == {NoDetails, 0, 1}
OptionPrices == {0, 200}
\* avgFillPrice of a status event, and the option price a later fetch returns
FillPrices == {0, 100, 200}
MarketPrices == {0, 115, 230, 260}

(***************************************************************************)
(* OrderManager.place_trade, from the ATM strike on: resolve the contract  *)
(* (one request id), fetch the option price (one request id), reserve the  *)
(* three order ids, build and submit the bracket, register the position.   *)
(***************************************************************************)
NewPosition(tp_order_id, sl_order_id, entry_tick_size, stop_loss_order) ==
    [stop_loss_order_id |-> sl_order_id, take_profit_order_id |-> tp_order_id,
     min_tick |-> entry_tick_size, stop_loss_price |-> stop_loss_order.auxPrice,
     last_milestone_level |-> 0, avg_cost |-> 0]

\* place_trade reserving the three order ids before it looks at its inputs
ReservesOrderIdsAlways(atm_strike, min_tick, option_price) == TRUE

\* does place_trade reach `get_next_request_id(count=3)`: it returns before
\* when there is no ATM strike, no contract details, no option price
ReservesOrderIds(atm_strike, min_tick, option_price) ==
    /\ atm_strike # 0
    /\ min_tick # NoDetails
    /\ option_price # 0

PlaceTrade(atm_strike, min_tick, option_price) ==
    /\ mpc = "idle"
    /\ next_request_id + 5 <= MaxRequestId
    \* the broker resolves a contract and quotes a price only for a connected client
    /\ (min_tick # NoDetails) => is_connected
    /\ last_op' = "place_trade"
    /\ LET after_resolve == CounterAfter(next_request_id, 1)
           after_price == CounterAfter(after_resolve, 1)
           parent_order_id == IF is_connected THEN after_price ELSE NotConnectedId
           tp_order_id == parent_order_id + 1
           sl_order_id == parent_order_id + 2
           entry_tick_size == IF min_tick > 0 THEN min_tick
                              ELSE GetSpxTickSize(option_price * 100)
           parent_order == ParentOrder(parent_order_id, option_price, entry_tick_size)
           bracket == CreateBracketOrders(parent_order_id, tp_order_id, sl_order_id,
                                          parent_order.lmtPrice, parent_order.totalQuantity,
                                          parent_order.action)
           \* the counter after the data requests made before the return
           data_counter == IF atm_strike = 0 THEN next_request_id
                           ELSE IF min_tick = NoDetails THEN after_resolve
                           ELSE after_price
       IN  /\ next_request_id' =
                 IF ReservesOrderIds(atm_strike, min_tick, option_price)
                   THEN CounterAfter(data_counter, 3)
                   ELSE data_counter
           /\ IF atm_strike = 0 \/ min_tick = NoDetails \/ option_price = 0
                 \/ bracket = <<>>
                THEN UNCHANGED active_positions /\ submitted' = <<>>
                ELSE /\ submitted' = <<parent_order, bracket[1], bracket[2]>>
                     /\ active_positions' =
                           Bind(active_positions, parent_order_id,
                                NewPosition(tp_order_id, sl_order_id, entry_tick_size,
                                            bracket[2]))
    /\ UNCHANGED <<order_status_queue, mpc, closed, parent_fills>>
    /\ UNCHANGED <<is_connected, request_id_lock, conn_pc, connects, epoch_seed>>

(***************************************************************************)
(* The broker thread puts an order-status event on the status queue.  It   *)
(* reports on orders this client has placed.                               *)
(***************************************************************************)
PlacedOrderIds ==
    UNION { {p, active_positions[p].take_profit_order_id,
             active_positions[p].stop_loss_order_id} : p \in DOMAIN active_positions }
      \cup UNION { {closed[i].parent, closed[i].tp, closed[i].sl} : i \in DOMAIN closed }

StatusEvent(order_id, status, avg_fill_price) ==
    /\ Len(order_status_queue) < MaxQueue
    /\ order_id \in PlacedOrderIds
    /\ (status # "Filled") => avg_fill_price = 0
    /\ order_status_queue' = Append(order_status_queue,
            [orderId |-> order_id, status |-> status, avgFillPrice |-> avg_fill_price])
    /\ UNCHANGED <<active_positions, submitted, last_op, mpc, closed,
                   parent_fills>>
    /\ UNCHANGED connVars

(***************************************************************************)
(* OrderManager.manage_open_positions: first _check_for_updates, one       *)
(* iteration of its loop per step, then the trailing-stop pass.            *)
(***************************************************************************)
ManageStart ==
    /\ mpc = "idle"
    /\ mpc' = "drain"
    /\ last_op' = "manage_open_positions"
    /\ submitted' = <<>>
    /\ UNCHANGED <<active_positions, order_status_queue, closed, parent_fills>>
    /\ UNCHANGED connVars

\* Case 1 of _check_for_updates applies: a tracked parent's 'Filled' with no
\* average cost recorded yet
FirstFillRecordedAlways(order_id, status) ==
    order_id \in DOMAIN active_positions /\ status = "Filled"

FirstFill(order_id, status) ==
    /\ order_id \in DOMAIN active_positions
    /\ status = "Filled"
    /\ active_positions[order_id].avg_cost = 0

\* Case 2 without the check of the status
ParentsToRemoveOnAnyStatus(order_id, status) ==
    { parent_id \in DOMAIN active_positions :
        order_id \in {active_positions[parent_id].stop_loss_order_id,
                      active_positions[parent_id].take_profit_order_id} }

\* Case 2: the parents whose child the event is about, when its status is terminal
ParentsToRemove(order_id, status) ==
    { parent_id \in DOMAIN active_positions :
        /\ order_id \in {active_positions[parent_id].stop_loss_order_id,
                         active_positions[parent_id].take_profit_order_id}
        /\ status \in TerminalStates }

\* the loop stops at the first match; `if parent_to_remove:` skips a zero id
ParentToRemove(order_id, status) ==
    LET found == ParentsToRemove(order_id, status)
        first == CHOOSE p \in found : \A q \in found : p <= q
    IN  IF found = {} \/ first = 0 THEN NoId ELSE first

DrainOne ==
    /\ mpc = "drain"
    /\ order_status_queue # <<>>
    /\ LET status_update == Head(order_status_queue)
           order_id == status_update.orderId
           status == status_update.status
           avg_cost == status_update.avgFillPrice
           parent_to_remove == ParentToRemove(order_id, status)
       IN  /\ order_status_queue' = Tail(order_status_queue)
           /\ parent_fills' =
                 IF order_id \in DOMAIN active_positions /\ status = "Filled"
                   THEN IF order_id \in DOMAIN parent_fills
                          THEN [parent_fills EXCEPT
                                  ![order_id].first_positive =
                                      IF @ = 0 /\ avg_cost > 0 THEN avg_cost ELSE @]
                          ELSE Bind(parent_fills, order_id,
                                    [first |-> avg_cost, first_positive |-> avg_cost])
                   ELSE parent_fills
           /\ IF FirstFill(order_id, status)
                THEN /\ active_positions' =
                           IF avg_cost > 0
                             THEN [active_positions EXCEPT ![order_id].avg_cost = avg_cost]
                             ELSE active_positions
                     /\ UNCHANGED closed
              ELSE IF parent_to_remove # NoId
                THEN /\ active_positions' = Unbind(active_positions, parent_to_remove)
                     /\ closed' = Append(closed,
                           [parent |-> parent_to_remove,
                            tp |-> active_positions[parent_to_remove].take_profit_order_id,
                            sl |-> active_positions[parent_to_remove].stop_loss_order_id])
              ELSE UNCHANGED <<active_positions, closed>>
    /\ UNCHANGED <<submitted, last_op, mpc>>
    /\ UNCHANGED connVars

\* a drain loop that may stop with events still queued
DrainEndsAnyTime == TRUE

\* `while not self.ib_connector.get_order_status_queue().empty()` ends
DrainEnds == order_status_queue = <<>>

\* the queue is empty: _check_for_updates returns; `if not self.active_positions: return`
DrainDone ==
    /\ mpc = "drain"
    /\ DrainEnds
    /\ mpc' = IF DOMAIN active_positions = {} THEN "idle" ELSE "trail"
    /\ UNCHANGED <<active_positions, order_status_queue, submitted, last_op,
                   closed, parent_fills>>
    /\ UNCHANGED connVars

(***************************************************************************)
(* The trailing-stop pass of manage_open_positions over the snapshot of    *)
(* the tracked positions, with _modify_stop_loss.  price[p] is what        *)
(* _fetch_option_price returns for position p (0: None); every fetch       *)
(* reserves one request id.                                                *)
(***************************************************************************)
ProfitReachesActivation(current_price, avg_cost) ==
    /\ (current_price - avg_cost) * 100 >= ActivationPct * avg_cost
    /\ ActivationPct > 0

\* math.floor(profit_pct / activation_pct), rounded to the nearest level instead
MilestoneLevelRounded(current_price, avg_cost) ==
    HalfEvenDiv((current_price - avg_cost) * 100, ActivationPct * avg_cost)

\* math.floor(profit_pct / activation_pct)
MilestoneLevelAt(current_price, avg_cost, activation_pct) ==
    ((current_price - avg_cost) * 100) \div (activation_pct * avg_cost)

MilestoneLevel(current_price, avg_cost) ==
    MilestoneLevelAt(current_price, avg_cost, ActivationPct)

\* new_stop_price_sanitized of _modify_stop_loss
NewStopPriceAt(avg_cost, milestone_level, min_tick, stop_loss_pct, trail_pct) ==
    LET new_risk_pct == stop_loss_pct - milestone_level * trail_pct
    IN  RoundDownToTick(avg_cost * (100 - new_risk_pct), min_tick)

NewStopPrice(avg_cost, milestone_level, min_tick) ==
    NewStopPriceAt(avg_cost, milestone_level, min_tick, StopLossPct, TrailPct)

StopImprovesAlways(new_stop_price, current_stop_price) == TRUE

\* `if new_stop_price_sanitized > current_stop_price:`
StopImproves(new_stop_price, current_stop_price) == new_stop_price > current_stop_price

\* does the pass reach _modify_stop_loss for this position
CrossesMilestone(pos, current_price) ==
    /\ pos.avg_cost # 0
    /\ current_price # 0
    /\ ProfitReachesActivation(current_price, pos.avg_cost)
    /\ MilestoneLevel(current_price, pos.avg_cost) > pos.last_milestone_level

\* does _modify_stop_loss submit the modification
Modifies(pos, current_price) ==
    /\ CrossesMilestone(pos, current_price)
    /\ StopImproves(NewStopPrice(pos.avg_cost, MilestoneLevel(current_price, pos.avg_cost),
                                 pos.min_tick),
                    pos.stop_loss_price)

ModifiedStopOrder(pos, current_price) ==
    [orderId |-> pos.stop_loss_order_id, parentId |-> 0, action |-> "SELL",
     orderType |-> "STP", lmtPrice |-> 0,
     auxPrice |-> NewStopPrice(pos.avg_cost, MilestoneLevel(current_price, pos.avg_cost),
                               pos.min_tick),
     totalQuantity |-> TotalQuantity, tif |-> "GTC", transmit |-> TRUE]

\* manage_open_positions with a _modify_stop_loss that records the milestone
\* even when the new stop is no improvement
ManagedPositionMilestoneAlways(pos, current_price) ==
    IF CrossesMilestone(pos, current_price)
      THEN [pos EXCEPT
              !.stop_loss_price =
                  IF Modifies(pos, current_price)
                    THEN NewStopPrice(pos.avg_cost,
                                      MilestoneLevel(current_price, pos.avg_cost),
                                      pos.min_tick)
                    ELSE @,
              !.last_milestone_level = MilestoneLevel(current_price, pos.avg_cost)]
      ELSE pos

ManagedPosition(pos, current_price) ==
    IF Modifies(pos, current_price)
      THEN [pos EXCEPT
              !.stop_loss_price = NewStopPrice(pos.avg_cost,
                                     MilestoneLevel(current_price, pos.avg_cost),
                                     pos.min_tick),
              !.last_milestone_level = MilestoneLevel(current_price, pos.avg_cost)]
      ELSE pos

\* the modifications submitted, in the dict's (insertion = id) order
RECURSIVE ModificationsOf(_, _)
ModificationsOf(parents, price) ==
    IF parents = {} THEN <<>>
    ELSE LET p == CHOOSE x \in parents : \A y \in parents : x <= y
             rest == ModificationsOf(parents \ {p}, price)
         IN  IF Modifies(active_positions[p], price[p])
               THEN <<ModifiedStopOrder(active_positions[p], price[p])>> \o rest
               ELSE rest

Trail ==
    /\ mpc = "trail"
    /\ \E price \in [DOMAIN active_positions -> MarketPrices] :
          LET fetched == {p \in DOMAIN active_positions : active_positions[p].avg_cost # 0}
          IN  /\ next_request_id + Cardinality(fetched) <= MaxRequestId
              \* a price arrives only for a fetch that was made, by a connected client
              /\ \A p \in DOMAIN active_positions :
                    price[p] # 0 => (p \in fetched /\ is_connected)
              /\ active_positions' =
                    [p \in DOMAIN active_positions |->
                        ManagedPosition(active_positions[p], price[p])]
              /\ submitted' = ModificationsOf(DOMAIN active_positions, price)
              /\ next_request_id' = CounterAfter(next_request_id, Cardinality(fetched))
    /\ mpc' = "idle"
    /\ UNCHANGED <<order_status_queue, last_op, closed, parent_fills>>
    /\ UNCHANGED <<is_connected, request_id_lock, conn_pc, connects, epoch_seed>>

(***************************************************************************)
(* Engine: __init__, run() and the state handlers.  A handler that waits   *)
(* on a queue takes one step per wait, so that the broker thread can put   *)
(* items between two waits.                                                *)
(***************************************************************************)
\* what the breakout detector answers for a bar, carried by the bar
BarVerdicts == {"HOLD", "BUY", "SELL"}

\* outcomes of get_gex_provider(...).get_max_gamma_strike(...): a valid
\* (strike, expiration) pair, the pair (0.0, ""), the IB provider's 3-tuple,
\* an exception _state_analyze_gex catches, one it does not
GexResults == {"valid_pair", "invalid_pair", "triple", "caught_error", "uncaught_error"}

\* request ids the IB provider reserves before it returns
ProviderIds == {1, 3}

EngineInit ==
    /\ state = "INITIALIZING"
    /\ epc = "constructed"
    /\ rt_bars_req_id = NoId
    /\ breakout_signal = "NONE"
    /\ option_expiration = ""
    /\ req_id = NoId
    /\ bars_received = FALSE
    /\ historical_data_queue = <<>>
    /\ realtime_bar_queue = <<>>
    /\ hist_pending = {}
    /\ subscriptions = {}
    /\ last_accepted = <<NoId, NoId>>
    /\ trade_due = FALSE
    /\ placements = 0
    /\ link_up = FALSE
    /\ shutdown_log = <<>>
    /\ collected = {}
    /\ orb_bars = {}
    /\ orb_computed = 0
    /\ gex_analysed = <<>>

engLocals == <<rt_bars_req_id, breakout_signal, option_expiration, req_id, bars_received>>
engQueues == <<historical_data_queue, realtime_bar_queue>>
engBroker == <<hist_pending, subscriptions, link_up>>
engHistory == <<last_accepted, trade_due, placements, shutdown_log, rangeHistory,
                gex_analysed>>

\* run(): self.state = "CONNECTING", then the loop
RunStart ==
    /\ epc = "constructed"
    /\ state' = "CONNECTING"
    /\ epc' = "loop"
    /\ UNCHANGED <<engLocals, engQueues, engBroker, engHistory, connVars, omVars>>

\* _state_connect: connect() takes the broker's nextValidId ...
StateConnectSeed ==
    /\ epc = "loop"
    /\ state = "CONNECTING"
    /\ \E seed \in Seeds : SeedCounter(seed)
    /\ link_up' = TRUE
    /\ epc' = "connecting"
    /\ UNCHANGED <<state, engLocals, engQueues, hist_pending, subscriptions, engHistory,
                   omVars>>

\* ... marks the connector connected, and the engine moves on
StateConnectDone ==
    /\ epc = "connecting"
    /\ MarkConnected
    /\ state' = "GETTING_OPENING_RANGE"
    /\ epc' = "loop"
    /\ UNCHANGED <<engLocals, engQueues, engBroker, engHistory, omVars>>

\* connect() fails: a ConnectionError (no nextValidId in time) is caught and
\* the state kept; any other exception leaves the loop
StateConnectFail(error) ==
    /\ epc = "loop"
    /\ state = "CONNECTING"
    /\ ~is_connected
    /\ epc' = IF error = "ConnectionError" THEN "loop" ELSE "raised"
    /\ UNCHANGED <<state, engLocals, engQueues, engBroker, engHistory, connVars, omVars>>

\* _state_get_opening_range up to the first wait: a bad timezone shuts down,
\* else a request id is reserved and the historical bars requested
RangeStart(timezone_ok) ==
    /\ epc = "loop"
    /\ state = "GETTING_OPENING_RANGE"
    /\ next_request_id + 1 <= MaxRequestId
    /\ IF ~timezone_ok
         THEN /\ state' = "SHUTDOWN"
              /\ UNCHANGED <<epc, req_id, bars_received, collected, hist_pending,
                             next_request_id>>
         ELSE /\ req_id' = ReservedId(1)
              /\ next_request_id' = CounterAfter(next_request_id, 1)
              \* a request sent on a closed socket reaches no broker
              /\ hist_pending' = IF link_up THEN hist_pending \cup {ReservedId(1)}
                                 ELSE hist_pending
              /\ bars_received' = FALSE
              /\ collected' = {}
              /\ epc' = "range"
              /\ UNCHANGED state
    /\ UNCHANGED <<rt_bars_req_id, breakout_signal, option_expiration, engQueues,
                   subscriptions, link_up, omVars>>
    /\ UNCHANGED <<last_accepted, trade_due, placements, shutdown_log, orb_bars,
                   orb_computed, gex_analysed>>
    /\ UNCHANGED <<is_connected, request_id_lock, conn_pc, connects, epoch_seed>>

\* the state after calculate_levels
AfterOpeningRangeSkipping(levels_found) ==
    IF levels_found THEN "ANALYZING_GEX" ELSE "SHUTDOWN"

AfterOpeningRangeRepeating(levels_found) ==
    IF levels_found THEN "GETTING_OPENING_RANGE" ELSE "SHUTDOWN"

AfterOpeningRange(levels_found) ==
    IF levels_found THEN "MONITORING_BREAKOUT" ELSE "SHUTDOWN"

\* bars_received.append(bar): the bar joins the list, whatever request it
\* answers (its request id is dropped by `_, data = ...`)
CollectedAfter(item, bars) ==
    IF item[2] = "end" THEN bars ELSE bars \cup {item[1]}

\* the bars orb_strategy.add_bar is given when an item has been taken: a bar
\* hands over every bar taken so far
HandedIncrementally(data, bars) == bars

\* the bars orb_strategy.add_bar is given when an item has been taken: none
\* for a bar, the whole list once the sentinel has ended the drain
HandedToCalculator(data, bars) ==
    IF data = "end" THEN bars ELSE {}

\* one historical_data_queue.get that returns an item: `_, data = ...`; the
\* sentinel ends the drain, the collected bars go to the range calculator,
\* and calculate_levels decides the next state
RangeItem(levels_found) ==
    /\ epc = "range"
    /\ historical_data_queue # <<>>
    /\ LET item == Head(historical_data_queue)
       IN  /\ historical_data_queue' = Tail(historical_data_queue)
           /\ last_accepted' = <<req_id, item[1]>>
           /\ collected' = CollectedAfter(item, collected)
           /\ orb_bars' = orb_bars \cup HandedToCalculator(item[2], collected')
           /\ IF item[2] = "end"
                THEN /\ levels_found => bars_received
                     /\ orb_computed' = IF levels_found THEN orb_computed + 1
                                        ELSE orb_computed
                     /\ state' = AfterOpeningRange(levels_found)
                     /\ epc' = "loop"
                     /\ UNCHANGED bars_received
                ELSE /\ ~levels_found
                     /\ bars_received' = TRUE
                     /\ UNCHANGED <<state, epc, orb_computed>>
    /\ UNCHANGED <<rt_bars_req_id, breakout_signal, option_expiration, req_id,
                   realtime_bar_queue, engBroker, trade_due, placements, shutdown_log,
                   gex_analysed, connVars, omVars>>

\* the get raises Empty: shut down
RangeTimeout ==
    /\ epc = "range"
    /\ historical_data_queue = <<>>
    /\ state' = "SHUTDOWN"
    /\ epc' = "loop"
    /\ UNCHANGED <<engLocals, engQueues, engBroker, engHistory, connVars, omVars>>

\* _state_monitor_for_breakout up to the first wait: a new request id for
\* every step, and a subscription under it
MonitorStart ==
    /\ epc = "loop"
    /\ state = "MONITORING_BREAKOUT"
    /\ next_request_id + 1 <= MaxRequestId
    /\ rt_bars_req_id' = ReservedId(1)
    /\ next_request_id' = CounterAfter(next_request_id, 1)
    /\ subscriptions' = IF link_up THEN subscriptions \cup {ReservedId(1)}
                        ELSE subscriptions
    /\ epc' = "monitor"
    /\ UNCHANGED <<state, breakout_signal, option_expiration, req_id, bars_received,
                   engQueues, hist_pending, link_up, engHistory, omVars>>
    /\ UNCHANGED <<is_connected, request_id_lock, conn_pc, connects, epoch_seed>>

\* cancel_real_time_bars(req_id): the broker ends the subscription under that id
CancelRealTimeBars(subs, id) == subs \ {id}

\* one realtime_bar_queue.get that returns a bar: `_, data = ...`, the bar goes
\* to the detector, and a signal other than HOLD ends the monitoring
MonitorBar ==
    /\ epc = "monitor"
    /\ realtime_bar_queue # <<>>
    /\ LET item == Head(realtime_bar_queue)
       IN  /\ realtime_bar_queue' = Tail(realtime_bar_queue)
           /\ last_accepted' = <<rt_bars_req_id, item[1]>>
           /\ IF item[2] # "HOLD"
                THEN /\ breakout_signal' = item[2]
                     /\ state' = "ANALYZING_GEX"
                     /\ subscriptions' = CancelRealTimeBars(subscriptions, rt_bars_req_id)
                     /\ rt_bars_req_id' = NoId
                     /\ epc' = "loop"
                ELSE UNCHANGED <<breakout_signal, state, subscriptions, rt_bars_req_id, epc>>
    /\ UNCHANGED <<option_expiration, req_id, bars_received, historical_data_queue,
                   hist_pending, link_up, trade_due, placements, shutdown_log,
                   rangeHistory, gex_analysed, connVars, omVars>>

\* the get raises Empty after 60 s without a bar: back to CONNECTING if the
\* connector is not connected, else the state is kept (the next step
\* subscribes again)
MonitorTimeout ==
    /\ epc = "monitor"
    /\ realtime_bar_queue = <<>>
    /\ state' = IF ~is_connected THEN "CONNECTING" ELSE state
    /\ epc' = "loop"
    /\ UNCHANGED <<engLocals, engQueues, engBroker, engHistory, connVars, omVars>>

\* config.gex.provider_type: Gexbot, IB, Massive Data, and a value the factory
\* does not know
ProviderTypes == {0, 1, 2, 3}

\* what the provider meets: data that give a strike > 0 and an expiration,
\* data that give none, an error while it fetches or parses, a configuration
\* field it reads outside its try block that is missing or of the wrong type
GexOutcomes == {"valid", "invalid", "error", "config_error"}

\* get_gex_provider(config).get_max_gamma_strike(ticker, connector): the
\* factory raises ValueError for an unknown type; the Gexbot and Massive Data
\* providers return (strike, expiration), or (0.0, "") for invalid data and
\* for every error they catch; the IB provider returns three values,
\* (strike, expiration, strikes) or (0.0, "", [])
GetMaxGammaStrike(provider_type, outcome) ==
    CASE provider_type \notin {0, 1, 2} -> "caught_error"
      [] provider_type \in {0, 1, 2} /\ outcome = "config_error" -> "uncaught_error"
      [] provider_type = 1 /\ outcome # "config_error" -> "triple"
      [] provider_type \in {0, 2} /\ outcome = "valid" -> "valid_pair"
      [] provider_type \in {0, 2} /\ outcome \in {"invalid", "error"} -> "invalid_pair"

\* _state_analyze_gex: `max_gamma_strike, expiration = ...` unpacks a pair
StateAnalyzeGex(provider_type, outcome, ids) ==
    /\ epc = "loop"
    /\ state = "ANALYZING_GEX"
    /\ next_request_id + ids <= MaxRequestId
    /\ LET result == GetMaxGammaStrike(provider_type, outcome)
       IN  \* only the IB provider reserves request ids
           /\ (result # "triple") => ids = 1
           /\ next_request_id' = IF result = "triple"
                                   THEN CounterAfter(next_request_id, ids)
                                   ELSE next_request_id
           /\ CASE result = "valid_pair" ->
                     /\ option_expiration' = "20250117"
                     /\ state' = "PENDING_TRADE_EXECUTION"
                     /\ UNCHANGED epc
                [] result \in {"invalid_pair", "caught_error"} ->
                     /\ state' = "SHUTDOWN"
                     /\ UNCHANGED <<option_expiration, epc>>
                \* unpacking three values into two names raises ValueError, caught
                [] result = "triple" ->
                     /\ state' = "SHUTDOWN"
                     /\ UNCHANGED <<option_expiration, epc>>
                [] result = "uncaught_error" ->
                     /\ epc' = "raised"
                     /\ UNCHANGED <<option_expiration, state>>
    /\ gex_analysed' = Append(gex_analysed, <<provider_type, outcome>>)
    /\ UNCHANGED <<rt_bars_req_id, breakout_signal, req_id, bars_received, engQueues,
                   engBroker, last_accepted, trade_due, placements, shutdown_log,
                   rangeHistory, omVars>>
    /\ UNCHANGED <<is_connected, request_id_lock, conn_pc, connects, epoch_seed>>

\* the parameters of OrderManager.place_trade (none has a default) and the
\* keywords _state_execute_trade passes
PlaceTradeParameters ==
    {"signal_type", "spot_price", "strike_price", "expiration_date", "strike_list"}

EngineCallKeywords == {"signal", "spot_price", "highest_gamma_strike", "expiration"}

\* Python binds a keyword call iff every keyword names a parameter and every
\* parameter without a default is given; otherwise the call raises TypeError
\* before the body runs
CallBinds(keywords, parameters) ==
    keywords \subseteq parameters /\ parameters \subseteq keywords

\* _state_execute_trade
StateExecuteTrade ==
    /\ epc = "loop"
    /\ state = "PENDING_TRADE_EXECUTION"
    /\ IF option_expiration = "" \/ breakout_signal = "NONE"
         THEN /\ state' = "SHUTDOWN"
              /\ UNCHANGED <<epc, trade_due, placements, connVars, omVars>>
         ELSE /\ trade_due' = TRUE
              /\ IF CallBinds(EngineCallKeywords, PlaceTradeParameters)
                   THEN /\ placements' = placements + 1
                        /\ \E atm_strike \in AtmStrikes, min_tick \in MinTicks,
                              option_price \in OptionPrices :
                              PlaceTrade(atm_strike, min_tick, option_price)
                        /\ state' = "SHUTDOWN"
                        /\ UNCHANGED epc
                   ELSE /\ epc' = "raised"
                        /\ UNCHANGED <<state, placements, connVars, omVars>>
    /\ UNCHANGED <<engLocals, engQueues, engBroker, last_accepted, shutdown_log,
                   rangeHistory, gex_analysed>>

\* `if self.rt_bars_req_id:` in shutdown: None and 0 are false
ShutdownCancelsNever(id) == FALSE

ShutdownCancels(id) == id \notin {NoId, 0}

\* IBConnector.disconnect: `self._is_connected = False`
AfterDisconnectStillConnected == TRUE

AfterDisconnect == FALSE

\* Engine.shutdown: nothing when already shut down and disconnected; else the
\* tracked subscription is cancelled and forgotten, the connector is
\* disconnected if it is connected, and the state becomes SHUTDOWN
EngineShutdown ==
    IF state = "SHUTDOWN" /\ ~is_connected
      THEN /\ shutdown_log' = Append(shutdown_log,
                 [state_before |-> state, cancelled |-> NoId, disconnected |-> FALSE])
           /\ UNCHANGED <<state, rt_bars_req_id, subscriptions, hist_pending, link_up,
                          is_connected>>
      ELSE /\ shutdown_log' = Append(shutdown_log,
                 [state_before |-> state,
                  cancelled |-> IF ShutdownCancels(rt_bars_req_id) THEN rt_bars_req_id
                                ELSE NoId,
                  disconnected |-> is_connected])
           /\ rt_bars_req_id' = IF ShutdownCancels(rt_bars_req_id) THEN NoId
                                ELSE rt_bars_req_id
           \* the broker drops a client's requests when it disconnects
           /\ subscriptions' = IF is_connected THEN {}
                               ELSE IF ShutdownCancels(rt_bars_req_id)
                                      THEN CancelRealTimeBars(subscriptions, rt_bars_req_id)
                                      ELSE subscriptions
           /\ hist_pending' = IF is_connected THEN {} ELSE hist_pending
           /\ link_up' = IF is_connected THEN FALSE ELSE link_up
           /\ is_connected' = IF is_connected THEN AfterDisconnect ELSE is_connected
           /\ state' = "SHUTDOWN"

\* run() leaves its loop, normally or by an exception: `finally: self.shutdown()`
RunFinally ==
    /\ epc = "raised" \/ (epc = "loop" /\ state = "SHUTDOWN")
    /\ EngineShutdown
    /\ epc' = "done"
    /\ UNCHANGED <<breakout_signal, option_expiration, req_id, bars_received, engQueues,
                   last_accepted, trade_due, placements, rangeHistory, gex_analysed,
                   omVars>>
    /\ UNCHANGED <<next_request_id, request_id_lock, conn_pc, connects, epoch_seed>>

\* a caller of the engine calls shutdown() again after run() has returned
ShutdownCall ==
    /\ epc = "done"
    /\ Len(shutdown_log) < MaxShutdowns
    /\ EngineShutdown
    /\ UNCHANGED <<epc, breakout_signal, option_expiration, req_id, bars_received,
                   engQueues, last_accepted, trade_due, placements, rangeHistory,
                   gex_analysed, omVars>>
    /\ UNCHANGED <<next_request_id, request_id_lock, conn_pc, connects, epoch_seed>>

\* the item a drain has taken cannot be turned into a Bar (strptime on a date
\* of another format, a missing key): the exception is caught by no handler
\* of the state and leaves the loop of run()
RangeItemRaises ==
    /\ epc = "range"
    /\ historical_data_queue # <<>>
    /\ Head(historical_data_queue)[2] # "end"
    /\ historical_data_queue' = Tail(historical_data_queue)
    /\ epc' = "raised"
    /\ UNCHANGED <<state, engLocals, realtime_bar_queue, engBroker, engHistory,
                   connVars, omVars>>

MonitorBarRaises ==
    /\ epc = "monitor"
    /\ realtime_bar_queue # <<>>
    /\ realtime_bar_queue' = Tail(realtime_bar_queue)
    /\ epc' = "raised"
    /\ UNCHANGED <<state, engLocals, historical_data_queue, engBroker, engHistory,
                   connVars, omVars>>

(***************************************************************************)
(* The broker thread (IBWrapper callbacks): answers to the requests that   *)
(* are pending, under the request's id.                                    *)
(***************************************************************************)
HistoricalData(id, data) ==
    /\ id \in hist_pending
    /\ Len(historical_data_queue) < MaxQueue
    /\ historical_data_queue' = Append(historical_data_queue, <<id, data>>)
    /\ hist_pending' = IF data = "end" THEN hist_pending \ {id} ELSE hist_pending
    /\ UNCHANGED <<state, epc, engLocals, realtime_bar_queue, subscriptions, link_up,
                   engHistory, connVars, omVars>>

RealtimeBar(id, verdict) ==
    /\ id \in subscriptions
    /\ Len(realtime_bar_queue) < MaxQueue
    /\ realtime_bar_queue' = Append(realtime_bar_queue, <<id, verdict>>)
    /\ UNCHANGED <<state, epc, engLocals, historical_data_queue, engBroker, engHistory,
                   connVars, omVars>>

\* IBWrapper.connectionClosed: the socket to the broker is lost; the callback
\* logs it and puts an item on error_queue, which nothing reads.  The
\* connector's _is_connected flag is not touched.  The broker serves none of
\* the client's requests any more.
ConnectionClosed ==
    /\ is_connected
    /\ link_up
    /\ link_up' = FALSE
    /\ subscriptions' = {}
    /\ hist_pending' = {}
    /\ UNCHANGED <<state, epc, engLocals, engQueues, engHistory, connVars, omVars>>

(***************************************************************************)
(* The blocking calls of the correlation layer: resolve_contract_details   *)
(* and get_positions of IBConnector, _fetch_underlying_price and           *)
(* _fetch_option_chain_params of IBProvider.  A call takes one step per    *)
(* queue wait: the wait returns the head of the queue, or raises Empty     *)
(* when the queue has stayed empty for the timeout.                        *)
(***************************************************************************)
RequestKinds ==
    {"resolve_contract_details", "fetch_underlying_price", "fetch_option_chain_params"}

\* tick types: 4 is Last (ACCEPTABLE_TICK_TYPES has 4, 1, 2), 6 is High
TickTypes == {4, 6}
AcceptableTickTypes == {4, 1, 2}

CallInit ==
    /\ call_kind = "none"
    /\ call_req_id = NoId
    /\ call_phase = "first"
    /\ call_details = "none"
    /\ returned = "nothing"
    /\ contract_details_queue = <<>>
    /\ tick_price_queue = <<>>
    /\ position_queue = <<>>
    /\ sec_def_opt_params_queue = <<>>
    /\ requested = [k \in RequestKinds |-> {}]

\* the call reserves its request id and sends the request
CallStart(kind) ==
    /\ call_kind = "none"
    /\ kind \in RequestKinds
    /\ calls < MaxCalls
    /\ calls' = calls + 1
    /\ call_kind' = kind
    /\ call_req_id' = ReservedId(1)
    /\ next_request_id' = CounterAfter(next_request_id, 1)
    /\ requested' = IF is_connected
                      THEN [requested EXCEPT ![kind] = @ \cup {ReservedId(1)}]
                      ELSE requested
    /\ call_phase' = "first"
    /\ call_details' = "none"
    /\ UNCHANGED <<returned, callQueues>>
    /\ UNCHANGED <<is_connected, request_id_lock, conn_pc, connects, epoch_seed>>
    /\ UNCHANGED <<tpc, tcount, current_id, treg, issued>>
    /\ UNCHANGED <<omVars, engVars, breakoutVars, helperVars, snapVars>>

\* get_positions reserves no id (req_positions was called before)
GetPositionsStart ==
    /\ call_kind = "none"
    /\ call_kind' = "get_positions"
    /\ call_req_id' = NoId
    /\ UNCHANGED <<call_phase, call_details, returned, callQueues, requested>>
    /\ UNCHANGED <<connVars, threadVars, omVars, engVars, breakoutVars, helperVars, snapVars>>

\* the call returns
Return(value) ==
    /\ call_kind' = "none"
    /\ returned' = value

\* resolve_contract_details: a wait has returned <<q_req_id, details>>
ResolveTake ==
    /\ call_kind = "resolve_contract_details"
    /\ contract_details_queue # <<>>
    /\ LET item == Head(contract_details_queue)
       IN  /\ contract_details_queue' = Tail(contract_details_queue)
           /\ IF call_phase = "first"
                THEN IF item[1] # call_req_id
                       THEN /\ Return("None")
                            /\ UNCHANGED <<call_phase, call_details, last_accepted>>
                       ELSE /\ call_phase' = "rest"
                            /\ call_details' = item[2]
                            /\ last_accepted' = <<call_req_id, item[1]>>
                            /\ UNCHANGED <<call_kind, returned>>
                ELSE /\ IF item[1] = call_req_id
                          THEN Return(IF call_details # "none" THEN "details" ELSE "None")
                          ELSE UNCHANGED <<call_kind, returned>>
                     /\ UNCHANGED <<call_phase, call_details, last_accepted>>
    /\ UNCHANGED <<call_req_id, tick_price_queue, position_queue,
                   sec_def_opt_params_queue, requested>>
    /\ UNCHANGED <<connVars, threadVars, omVars, engOther, breakoutVars, helperVars, snapVars>>

\* _fetch_underlying_price: a wait has returned <<q_req_id, q_tick_type, ...>>
UnderlyingPriceTake ==
    /\ call_kind = "fetch_underlying_price"
    /\ tick_price_queue # <<>>
    /\ LET item == Head(tick_price_queue)
       IN  /\ tick_price_queue' = Tail(tick_price_queue)
           /\ IF item[1] = call_req_id /\ item[2] \in AcceptableTickTypes
                THEN /\ Return("price")
                     /\ last_accepted' = <<call_req_id, item[1]>>
                ELSE UNCHANGED <<call_kind, returned, last_accepted>>
    /\ UNCHANGED <<call_req_id, call_phase, call_details, contract_details_queue,
                   position_queue, sec_def_opt_params_queue, requested>>
    /\ UNCHANGED <<connVars, threadVars, omVars, engOther, breakoutVars, helperVars, snapVars>>

\* _fetch_option_chain_params: the wait has returned `_, chain_params`
ChainParamsTake ==
    /\ call_kind = "fetch_option_chain_params"
    /\ sec_def_opt_params_queue # <<>>
    /\ LET item == Head(sec_def_opt_params_queue)
       IN  /\ sec_def_opt_params_queue' = Tail(sec_def_opt_params_queue)
           /\ Return(IF item[2] = "params" THEN "params" ELSE "None")
           /\ last_accepted' = <<call_req_id, item[1]>>
    /\ UNCHANGED <<call_req_id, call_phase, call_details, contract_details_queue,
                   tick_price_queue, position_queue, requested>>
    /\ UNCHANGED <<connVars, threadVars, omVars, engOther, breakoutVars, helperVars, snapVars>>

\* get_positions: a wait has returned a position or the None sentinel
GetPositionsTake ==
    /\ call_kind = "get_positions"
    /\ position_queue # <<>>
    /\ position_queue' = Tail(position_queue)
    /\ IF Head(position_queue) = "end"
         THEN Return("positions")
         ELSE UNCHANGED <<call_kind, returned>>
    /\ UNCHANGED <<call_req_id, call_phase, call_details, contract_details_queue,
                   tick_price_queue, sec_def_opt_params_queue, requested>>
    /\ UNCHANGED <<connVars, threadVars, omVars, engVars, breakoutVars, helperVars, snapVars>>

\* the queue the running call waits on
WaitedQueue ==
    CASE call_kind = "resolve_contract_details" -> contract_details_queue
      [] call_kind = "fetch_underlying_price" -> tick_price_queue
      [] call_kind = "fetch_option_chain_params" -> sec_def_opt_params_queue
      [] call_kind = "get_positions" -> position_queue

\* the wait raises Empty: every call handles it by returning what it has
CallTimeout ==
    /\ call_kind # "none"
    /\ WaitedQueue = <<>>
    /\ Return(CASE call_kind = "resolve_contract_details" /\ call_phase = "rest"
                        /\ call_details # "none" -> "details"
                [] call_kind = "get_positions" -> "positions"
                [] OTHER -> "None")
    /\ UNCHANGED <<call_req_id, call_phase, call_details, callQueues, requested>>
    /\ UNCHANGED <<connVars, threadVars, omVars, engVars, breakoutVars, helperVars, snapVars>>

(***************************************************************************)
(* The broker thread's answers on these queues, under the id of a request  *)
(* of that kind; they may come late, after the call has given up.          *)
(***************************************************************************)
ContractDetails(id, details) ==
    /\ id \in requested["resolve_contract_details"]
    /\ Len(contract_details_queue) < MaxQueue
    /\ contract_details_queue' = Append(contract_details_queue, <<id, details>>)
    /\ UNCHANGED <<call_kind, call_req_id, call_phase, call_details, returned,
                   tick_price_queue, position_queue, sec_def_opt_params_queue, requested>>
    /\ UNCHANGED <<connVars, threadVars, omVars, engVars, breakoutVars, helperVars, snapVars>>

TickPrice(id, tick_type) ==
    /\ id \in requested["fetch_underlying_price"]
    /\ Len(tick_price_queue) < MaxQueue
    /\ tick_price_queue' = Append(tick_price_queue, <<id, tick_type>>)
    /\ UNCHANGED <<call_kind, call_req_id, call_phase, call_details, returned,
                   contract_details_queue, position_queue, sec_def_opt_params_queue,
                   requested>>
    /\ UNCHANGED <<connVars, threadVars, omVars, engVars, breakoutVars, helperVars, snapVars>>

SecDefOptParams(id, params) ==
    /\ id \in requested["fetch_option_chain_params"]
    /\ Len(sec_def_opt_params_queue) < MaxQueue
    /\ sec_def_opt_params_queue' = Append(sec_def_opt_params_queue, <<id, params>>)
    /\ UNCHANGED <<call_kind, call_req_id, call_phase, call_details, returned,
                   contract_details_queue, tick_price_queue, position_queue, requested>>
    /\ UNCHANGED <<connVars, threadVars, omVars, engVars, breakoutVars, helperVars, snapVars>>

Position(item) ==
    /\ is_connected
    /\ Len(position_queue) < MaxQueue
    /\ position_queue' = Append(position_queue, item)
    /\ UNCHANGED <<call_kind, call_req_id, call_phase, call_details, returned,
                   contract_details_queue, tick_price_queue, sec_def_opt_params_queue,
                   requested>>
    /\ UNCHANGED <<connVars, threadVars, omVars, engVars, breakoutVars, helperVars, snapVars>>

\* a step of the foreground thread inside a call
ForegroundStep ==
    \/ ResolveTake
    \/ UnderlyingPriceTake
    \/ ChainParamsTake
    \/ GetPositionsTake
    \/ CallTimeout

(***************************************************************************)
(* BreakoutStrategy (strategy/breakout.py): 5-second bars are collected    *)
(* into candles of aggregation_seconds.  A timestamp is a number of        *)
(* seconds; the bars arrive 5 seconds apart.                               *)
(***************************************************************************)
\* breakout.bar_size_seconds, and the opening range, as the tests set them
AggregationSeconds == 60
OrbHigh == 4000
OrbLow == 3990

\* __init__: self.bars_to_aggregate = aggregation_seconds // 5
BarsToAggregate == AggregationSeconds \div 5

\* the second of the minute of the first bar given to the strategy
StartOffsets == {0, 7}

\* the prices of a 5-second bar: one that rises above the range, one that
\* falls below it
BarPrices ==
    { [open |-> 4001, high |-> 4002, low |-> 4001, close |-> 4002],
      [open |-> 3989, high |-> 3989, low |-> 3985, close |-> 3986] }

NoBar == [timestamp |-> 0 - 1]

Bar(ts, prices) ==
    [timestamp |-> ts, open |-> prices.open, high |-> prices.high, low |-> prices.low,
     close |-> prices.close]

BreakoutInit ==
    /\ five_second_bars = <<>>
    /\ signal = "NONE"
    /\ last_bar = NoBar

\* datetime.second
Second(ts) == ts % 60

\* window_start_ts and window_end_ts of add_realtime_bar
WindowStart(first_bar_ts) == first_bar_ts - (Second(first_bar_ts) % AggregationSeconds)

WindowEnd(first_bar_ts) == WindowStart(first_bar_ts) + AggregationSeconds

Highest(S) == CHOOSE x \in S : \A y \in S : y <= x

Lowest(S) == CHOOSE x \in S : \A y \in S : x <= y

\* _aggregate_bars: the candle of the bars collected (None for no bar)
AggregateBars(bars) ==
    IF bars = <<>> THEN NoBar
    ELSE [timestamp |-> bars[1].timestamp,
          open |-> bars[1].open,
          high |-> Highest({bars[i].high : i \in DOMAIN bars}),
          low |-> Lowest({bars[i].low : i \in DOMAIN bars}),
          close |-> bars[Len(bars)].close]

\* check_breakout
CheckBreakout(bar, high_level, low_level) ==
    IF bar = NoBar THEN "NO SIGNAL"
    ELSE IF bar.close > bar.open /\ bar.low > high_level THEN "BULLISH"
    ELSE IF bar.close < bar.open /\ bar.high < low_level THEN "BEARISH"
    ELSE "NO SIGNAL"

\* add_realtime_bar: a bar outside the window of the first bar collected
\* empties the list; the bar is appended; a list of bars_to_aggregate bars is
\* aggregated, emptied and checked for a breakout
AddRealtimeBar(ts, prices) ==
    /\ ts <= MaxTimestamp
    /\ IF last_bar = NoBar THEN ts \in StartOffsets ELSE ts = last_bar.timestamp + 5
    /\ LET bar == Bar(ts, prices)
           kept == IF /\ five_second_bars # <<>>
                      /\ ~(/\ WindowStart(five_second_bars[1].timestamp) <= ts
                            /\ ts < WindowEnd(five_second_bars[1].timestamp))
                     THEN <<>>
                     ELSE five_second_bars
           appended == Append(kept, bar)
       IN  /\ last_bar' = bar
           /\ IF Len(appended) = BarsToAggregate
                THEN /\ five_second_bars' = <<>>
                     /\ signal' = CheckBreakout(AggregateBars(appended), OrbHigh, OrbLow)
                ELSE /\ five_second_bars' = appended
                     /\ signal' = "NO SIGNAL"

(***************************************************************************)
(* The order manager's pure helpers: _make_trade_decision,                 *)
(* _get_atm_strike, the price selection of _fetch_option_price and the     *)
(* prices of _create_bracket_orders.  helper_call holds the arguments of   *)
(* one call, helper_result what the call returned.                         *)
(***************************************************************************)
MaxStrikes == 3

NoCall == [kind |-> "none"]
NoResult == [returned |-> FALSE]

\* a returned value, and a returned None
Value(v) == [returned |-> TRUE, none |-> FALSE, value |-> v]
None == [returned |-> TRUE, none |-> TRUE]

HelperIdle ==
    /\ helper_call = NoCall
    /\ helper_result = NoResult

\* SignalType
SignalTypes == {"BUY", "SELL", "HOLD"}
SpotPrices == {448, 450, 452}
GexStrikes == {445, 450, 455}

\* the strike lists of up to MaxStrikes strikes, in any order, with repeats
StrikeLists == UNION { [1..n -> GexStrikes] : n \in 0..MaxStrikes }

\* a price of the market data dictionary, in cents: the key is absent, IB's
\* -1 for unavailable data, another negative, zero, two positive prices
Missing == 0 - 9999
Unavailable == 0 - 100
TickValues == {Missing, Unavailable, 0 - 50, 0, 150, 175}
MarketData == [ask : TickValues, last : TickValues, close : TickValues]

\* entry prices, parent actions and configured percentages of a bracket
EntryPrices == {5, 148, 200, 230, 233}
Actions == {"BUY", "SELL"}
TakeProfitPcts == {50}
StopLossPcts == {0, 1, 20}
InstrumentTicks == {1, 5}

\* the prices given to _round_down_to_tick: up to MaxRoundPrice cents, on and
\* off the cent
MaxRoundPrice == 31
RawPrices == {c * 100 + f : c \in 0..MaxRoundPrice, f \in {0, 1, 50, 99}}
PositiveTicks == {1, 5, 10}

HelperCalls ==
    [kind : {"_round_down_to_tick"}, price : RawPrices, tick_size : PositiveTicks]
    \cup
    [kind : {"_make_trade_decision"}, signal_type : SignalTypes,
     spot_price : SpotPrices, strike_price : GexStrikes]
    \cup [kind : {"_get_atm_strike"}, spot_price : SpotPrices, strike_list : StrikeLists]
    \cup [kind : {"_fetch_option_price"}, market_data : MarketData]
    \cup [kind : {"_create_bracket_orders"}, entry_price : EntryPrices, action : Actions,
          take_profit_pct : TakeProfitPcts, stop_loss_pct : StopLossPcts,
          min_tick : InstrumentTicks]
    \* a tracked position (average cost, stored stop, stored level), the price
    \* fetched for it, and the percentages of trade_management
    \cup [kind : {"_modify_stop_loss"}, avg_cost : {200}, current_price : {210, 230, 260},
          last_milestone_level : {0, 1}, stop_loss_price : {160, 180},
          activation_pct : {0, 10}, trail_pct : {10, 50},
          stop_loss_pct : {StopLossPct}, min_tick : {1}]

HelperInit ==
    /\ helper_call \in HelperCalls
    /\ helper_result = NoResult

\* _make_trade_decision with the rights of the bearish rows exchanged
MakeTradeDecisionMirrored(signal_type, spot_price, strike_price) ==
    LET is_bullish_signal == signal_type = "BUY"
        gex_is_above_spot == strike_price > spot_price
    IN  IF is_bullish_signal = gex_is_above_spot THEN Value("C") ELSE Value("P")

\* OrderManager._make_trade_decision
MakeTradeDecision(signal_type, spot_price, strike_price) ==
    LET is_bullish_signal == signal_type = "BUY"
        gex_is_above_spot == strike_price > spot_price
    IN  IF is_bullish_signal /\ gex_is_above_spot THEN Value("C")
        ELSE IF is_bullish_signal /\ ~gex_is_above_spot THEN Value("P")
        ELSE IF ~is_bullish_signal /\ gex_is_above_spot THEN Value("C")
        ELSE IF ~is_bullish_signal /\ ~gex_is_above_spot THEN Value("P")
        ELSE None

Abs(x) == IF x < 0 THEN 0 - x ELSE x

\* min(strike_list, key=...) keeping the last of several minimal elements
LastMinimal(spot_price, strike_list) ==
    LET key(i) == Abs(strike_list[i] - spot_price)
        best == CHOOSE i \in DOMAIN strike_list :
                    /\ \A j \in DOMAIN strike_list : key(i) <= key(j)
                    /\ \A j \in DOMAIN strike_list : j > i => key(j) > key(i)
    IN  strike_list[best]

\* min(strike_list, key=lambda x: abs(x - spot_price)): the first of the
\* elements with the smallest key
FirstMinimal(spot_price, strike_list) ==
    LET key(i) == Abs(strike_list[i] - spot_price)
        best == CHOOSE i \in DOMAIN strike_list :
                    /\ \A j \in DOMAIN strike_list : key(i) <= key(j)
                    /\ \A j \in DOMAIN strike_list : j < i => key(j) > key(i)
    IN  strike_list[best]

\* OrderManager._get_atm_strike
GetAtmStrike(spot_price, strike_list) ==
    IF strike_list = <<>> THEN None
    ELSE Value(FirstMinimal(spot_price, strike_list))

\* `price is None or price == -1`
NotAvailable(price) == price = Missing \/ price = Unavailable

\* OrderManager._fetch_option_price, from the dictionary fetch_market_price
\* returned; a dictionary with no key is empty
FetchOptionPrice(market_data) ==
    IF market_data.ask = Missing /\ market_data.last = Missing /\ market_data.close = Missing
      THEN None
    ELSE LET from_ask == market_data.ask
             from_last == IF NotAvailable(from_ask) THEN market_data.last ELSE from_ask
             price == IF NotAvailable(from_last) THEN market_data.close ELSE from_last
         IN  IF price # Missing /\ price # 0 /\ price > 0 THEN Value(price) ELSE None

\* the limit price of the take-profit order and the stop price of the
\* stop-loss order _create_bracket_orders builds, None for a parent action
\* other than BUY
BracketPrices(entry_price, action, take_profit_pct, stop_loss_pct, min_tick) ==
    IF action # "BUY" THEN None
    ELSE Value([lmtPrice |-> TakeProfitPriceAt(entry_price, take_profit_pct),
                auxPrice |-> StopLossPriceAt(entry_price, stop_loss_pct)])

\* the stop price of the modification that the pass of manage_open_positions
\* submits through _modify_stop_loss for one position, None when it submits none
TrailingStop(call) ==
    LET level == MilestoneLevelAt(call.current_price, call.avg_cost, call.activation_pct)
        new_stop == NewStopPriceAt(call.avg_cost, level, call.min_tick,
                                   call.stop_loss_pct, call.trail_pct)
    IN  IF /\ call.activation_pct > 0
           /\ (call.current_price - call.avg_cost) * 100
                  >= call.activation_pct * call.avg_cost
           /\ level > call.last_milestone_level
           /\ new_stop > call.stop_loss_price
          THEN Value(new_stop)
          ELSE None

\* the call, and the call on what it returned
RoundDownToTickCall ==
    /\ helper_call.kind = "_round_down_to_tick"
    /\ helper_result = NoResult
    /\ LET rounded == RoundDownToTick(helper_call.price, helper_call.tick_size)
       IN  helper_result' = Value([rounded |-> rounded,
                                   again |-> RoundDownToTick(rounded * 100,
                                                             helper_call.tick_size)])
    /\ UNCHANGED helper_call

MakeTradeDecisionCall ==
    /\ helper_call.kind = "_make_trade_decision"
    /\ helper_result = NoResult
    /\ helper_result' = MakeTradeDecision(helper_call.signal_type, helper_call.spot_price,
                                          helper_call.strike_price)
    /\ UNCHANGED helper_call

GetAtmStrikeCall ==
    /\ helper_call.kind = "_get_atm_strike"
    /\ helper_result = NoResult
    /\ helper_result' = GetAtmStrike(helper_call.spot_price, helper_call.strike_list)
    /\ UNCHANGED helper_call

FetchOptionPriceCall ==
    /\ helper_call.kind = "_fetch_option_price"
    /\ helper_result = NoResult
    /\ helper_result' = FetchOptionPrice(helper_call.market_data)
    /\ UNCHANGED helper_call

CreateBracketOrdersCall ==
    /\ helper_call.kind = "_create_bracket_orders"
    /\ helper_result = NoResult
    /\ helper_result' = BracketPrices(helper_call.entry_price, helper_call.action,
                                      helper_call.take_profit_pct,
                                      helper_call.stop_loss_pct, helper_call.min_tick)
    /\ UNCHANGED helper_call

ModifyStopLossCall ==
    /\ helper_call.kind = "_modify_stop_loss"
    /\ helper_result = NoResult
    /\ helper_result' = TrailingStop(helper_call)
    /\ UNCHANGED helper_call

(***************************************************************************)
(* IBConnector.fetch_market_price: a snapshot polled from the two tick     *)
(* queues until a wall-clock deadline.  Time is counted in halves of the   *)
(* 0.1 s poll interval: a wait that finds an item returns at once or half  *)
(* way through the interval, a wait that raises Empty has taken the whole  *)
(* interval.  The timeout argument is a number of poll intervals.          *)
(***************************************************************************)
\* queue.get(block=True, timeout=0.1), in halves of a poll interval
PollInterval == 2
MaxTimeout == 2
MaxSnapshots == 2

\* TICK_TYPE_MAP: tick type code -> key of the snapshot
TICK_TYPE_MAP ==
    [t \in {1, 2, 4, 6, 7, 9, 0, 3, 5, 8} |->
        CASE t = 1 -> "bid"
          [] t = 2 -> "ask"
          [] t = 4 -> "last"
          [] t = 6 -> "high"
          [] t = 7 -> "low"
          [] t = 9 -> "close"
          [] t = 0 -> "bid_size"
          [] t = 3 -> "ask_size"
          [] t = 5 -> "last_size"
          [] t = 8 -> "volume"]

\* the tick types the feed delivers: bid, ask and last on the price queue,
\* bid size on the size queue
PriceTickTypes == {1, 2, 4}
SizeTickTypes == {0}

\* `if all(k in market_data for k in ['bid', 'ask', 'last'])`
EarlyExitKeys == {"bid", "ask", "last"}

callRest == <<call_kind, call_req_id, call_phase, call_details, returned,
              contract_details_queue, position_queue, sec_def_opt_params_queue,
              requested>>

SnapInit ==
    /\ tick_size_queue = <<>>
    /\ snap_pc = "idle"
    /\ snap_req_id = NoId
    /\ snap_market_data = {}
    /\ end_time = 0
    /\ now = 0
    /\ snap_requested = {}
    /\ snapshot = NoResult

\* the mutant of OwnTick: every tick is kept
AnyTick(item) == TRUE

\* `if p_req_id == req_id` / `if s_req_id == req_id`
OwnTick(item) == item[1] = snap_req_id

\* market_data after the tick `item` was taken from a queue
WithTick(data, item) ==
    IF OwnTick(item) /\ item[2] \in DOMAIN TICK_TYPE_MAP
      THEN data \cup {TICK_TYPE_MAP[item[2]]}
      ELSE data

\* the call reserves its id, sends the request and computes the deadline
FetchMarketPrice(timeout) ==
    /\ snap_pc = "idle"
    /\ calls < MaxSnapshots
    /\ calls' = calls + 1
    /\ snap_req_id' = ReservedId(1)
    /\ next_request_id' = CounterAfter(next_request_id, 1)
    /\ snap_requested' = IF is_connected
                           THEN snap_requested \cup {ReservedId(1)}
                           ELSE snap_requested
    /\ snap_market_data' = {}
    /\ now' = 0
    /\ end_time' = timeout * PollInterval
    /\ snap_pc' = "drain"
    /\ snapshot' = NoResult
    /\ UNCHANGED tick_size_queue
    /\ UNCHANGED <<is_connected, request_id_lock, conn_pc, connects, epoch_seed>>
    /\ UNCHANGED <<tpc, tcount, current_id, treg, issued>>
    /\ UNCHANGED <<omVars, engVars, callVars, breakoutVars, helperVars>>

\* "Drain queues of old data before starting"
DrainOldData ==
    /\ snap_pc = "drain"
    /\ tick_price_queue' = <<>>
    /\ tick_size_queue' = <<>>
    /\ snap_pc' = "loop"
    /\ UNCHANGED <<snap_req_id, snap_market_data, end_time, now, snap_requested, snapshot>>
    /\ UNCHANGED <<connVars, threadVars, omVars, engVars, callRest, breakoutVars,
                   helperVars>>

\* `while time.time() < end_time`; when it fails the call returns market_data
LoopCheck ==
    /\ snap_pc = "loop"
    /\ IF now < end_time
         THEN /\ snap_pc' = "price"
              /\ UNCHANGED snapshot
         ELSE /\ snap_pc' = "idle"
              /\ snapshot' = Value(snap_market_data)
    /\ UNCHANGED <<tick_size_queue, snap_req_id, snap_market_data, end_time, now,
                   snap_requested>>
    /\ UNCHANGED <<connVars, threadVars, omVars, engVars, callVars, breakoutVars,
                   helperVars>>

\* the wait on tick_price_queue returns an item, `elapsed` after it began
PriceWait(elapsed) ==
    /\ snap_pc = "price"
    /\ tick_price_queue # <<>>
    /\ elapsed \in 0..(PollInterval - 1)
    /\ tick_price_queue' = Tail(tick_price_queue)
    /\ snap_market_data' = WithTick(snap_market_data, Head(tick_price_queue))
    /\ now' = now + elapsed
    /\ snap_pc' = "size"
    /\ UNCHANGED <<tick_size_queue, snap_req_id, end_time, snap_requested, snapshot>>
    /\ UNCHANGED <<connVars, threadVars, omVars, engVars, callRest, breakoutVars,
                   helperVars>>

\* the wait on tick_price_queue raises Empty
PriceEmpty ==
    /\ snap_pc = "price"
    /\ tick_price_queue = <<>>
    /\ now' = now + PollInterval
    /\ snap_pc' = "size"
    /\ UNCHANGED <<tick_size_queue, snap_req_id, snap_market_data, end_time, snap_requested,
                   snapshot>>
    /\ UNCHANGED <<connVars, threadVars, omVars, engVars, callVars, breakoutVars,
                   helperVars>>

\* the end of an iteration: the loop is left when bid, ask and last are held
EndOfIteration(data) ==
    IF EarlyExitKeys \subseteq data
      THEN /\ snap_pc' = "idle"
           /\ snapshot' = Value(data)
      ELSE /\ snap_pc' = "loop"
           /\ UNCHANGED snapshot

\* the wait on tick_size_queue returns an item, `elapsed` after it began
SizeWait(elapsed) ==
    /\ snap_pc = "size"
    /\ tick_size_queue # <<>>
    /\ elapsed \in 0..(PollInterval - 1)
    /\ tick_size_queue' = Tail(tick_size_queue)
    /\ snap_market_data' = WithTick(snap_market_data, Head(tick_size_queue))
    /\ now' = now + elapsed
    /\ EndOfIteration(snap_market_data')
    /\ UNCHANGED <<snap_req_id, end_time, snap_requested>>
    /\ UNCHANGED <<connVars, threadVars, omVars, engVars, callVars, breakoutVars,
                   helperVars>>

\* the wait on tick_size_queue raises Empty
SizeEmpty ==
    /\ snap_pc = "size"
    /\ tick_size_queue = <<>>
    /\ now' = now + PollInterval
    /\ EndOfIteration(snap_market_data)
    /\ UNCHANGED <<tick_size_queue, snap_req_id, snap_market_data, end_time, snap_requested>>
    /\ UNCHANGED <<connVars, threadVars, omVars, engVars, callVars, breakoutVars,
                   helperVars>>

\* the broker thread's ticks, under the id of a market data request; they
\* may come late, after the call has returned
MarketTickPrice(id, tick_type) ==
    /\ id \in snap_requested
    /\ Len(tick_price_queue) < MaxQueue
    /\ tick_price_queue' = Append(tick_price_queue, <<id, tick_type>>)
    /\ UNCHANGED <<callRest, snapVars>>
    /\ UNCHANGED <<connVars, threadVars, omVars, engVars, breakoutVars, helperVars>>

MarketTickSize(id, tick_type) ==
    /\ id \in snap_requested
    /\ Len(tick_size_queue) < MaxQueue
    /\ tick_size_queue' = Append(tick_size_queue, <<id, tick_type>>)
    /\ UNCHANGED <<snap_pc, snap_req_id, snap_market_data, end_time, now, snap_requested,
                   snapshot>>
    /\ UNCHANGED <<connVars, threadVars, omVars, engVars, callVars, breakoutVars,
                   helperVars>>

(***************************************************************************)
(* Specifications.                                                         *)
(***************************************************************************)
AllocInit ==
    ConnInit /\ ThreadInit /\ OMInit /\ EngineInit /\ CallInit /\ BreakoutInit /\ HelperIdle /\ SnapInit
AllocNext ==
    \/ /\ \E seed \in Seeds : SeedCounter(seed)
       /\ UNCHANGED <<threadVars, omVars, engVars, callVars, breakoutVars, helperVars, snapVars>>
    \/ /\ MarkConnected
       /\ UNCHANGED <<threadVars, omVars, engVars, callVars, breakoutVars, helperVars, snapVars>>
    \/ /\ Disconnect
       /\ UNCHANGED <<threadVars, omVars, engVars, callVars, breakoutVars, helperVars, snapVars>>
    \/ /\ \E t \in Threads, count \in Counts : GetIdCall(t, count)
       /\ UNCHANGED <<omVars, engVars, callVars, breakoutVars, helperVars, snapVars>>
    \/ /\ \E t \in Threads : GetIdAcquire(t)
       /\ UNCHANGED <<omVars, engVars, callVars, breakoutVars, helperVars, snapVars>>
    \/ /\ \E t \in Threads : GetIdRead(t)
       /\ UNCHANGED <<omVars, engVars, callVars, breakoutVars, helperVars, snapVars>>
    \/ /\ \E t \in Threads : GetIdLoad(t)
       /\ UNCHANGED <<omVars, engVars, callVars, breakoutVars, helperVars, snapVars>>
    \/ /\ \E t \in Threads : GetIdStore(t)
       /\ UNCHANGED <<omVars, engVars, callVars, breakoutVars, helperVars, snapVars>>

AllocSpec == AllocInit /\ [][AllocNext]_vars

OMSpecInit ==
    ConnInit /\ ThreadInit /\ OMInit /\ EngineInit /\ CallInit /\ BreakoutInit /\ HelperIdle /\ SnapInit
OMNext ==
    \/ /\ \E seed \in Seeds : SeedCounter(seed)
       /\ UNCHANGED <<threadVars, omVars, engVars, callVars, breakoutVars, helperVars, snapVars>>
    \/ /\ MarkConnected
       /\ UNCHANGED <<threadVars, omVars, engVars, callVars, breakoutVars, helperVars, snapVars>>
    \/ /\ \E atm_strike \in AtmStrikes, min_tick \in MinTicks, option_price \in OptionPrices :
             PlaceTrade(atm_strike, min_tick, option_price)
       /\ UNCHANGED <<threadVars, engVars, callVars, breakoutVars, helperVars, snapVars>>
    \/ /\ \E order_id \in PlacedOrderIds, status \in Statuses, avg_fill_price \in FillPrices :
             StatusEvent(order_id, status, avg_fill_price)
       /\ UNCHANGED <<threadVars, engVars, callVars, breakoutVars, helperVars, snapVars>>
    \/ /\ ManageStart
       /\ UNCHANGED <<threadVars, engVars, callVars, breakoutVars, helperVars, snapVars>>
    \/ /\ DrainOne
       /\ UNCHANGED <<threadVars, engVars, callVars, breakoutVars, helperVars, snapVars>>
    \/ /\ DrainDone
       /\ UNCHANGED <<threadVars, engVars, callVars, breakoutVars, helperVars, snapVars>>
    \/ /\ Trail
       /\ UNCHANGED <<threadVars, engVars, callVars, breakoutVars, helperVars, snapVars>>

OMSpec == OMSpecInit /\ [][OMNext]_vars

EngineSpecInit ==
    ConnInit /\ ThreadInit /\ OMInit /\ EngineInit /\ CallInit /\ BreakoutInit /\ HelperIdle /\ SnapInit
EngineNext ==
    \/ /\ RunStart
       /\ UNCHANGED <<threadVars, callVars, breakoutVars, helperVars, snapVars>>
    \/ /\ StateConnectSeed
       /\ UNCHANGED <<threadVars, callVars, breakoutVars, helperVars, snapVars>>
    \/ /\ StateConnectDone
       /\ UNCHANGED <<threadVars, callVars, breakoutVars, helperVars, snapVars>>
    \/ /\ \E error \in {"ConnectionError", "OSError"} : StateConnectFail(error)
       /\ UNCHANGED <<threadVars, callVars, breakoutVars, helperVars, snapVars>>
    \/ /\ \E timezone_ok \in BOOLEAN : RangeStart(timezone_ok)
       /\ UNCHANGED <<threadVars, callVars, breakoutVars, helperVars, snapVars>>
    \/ /\ \E levels_found \in BOOLEAN : RangeItem(levels_found)
       /\ UNCHANGED <<threadVars, callVars, breakoutVars, helperVars, snapVars>>
    \/ /\ RangeTimeout
       /\ UNCHANGED <<threadVars, callVars, breakoutVars, helperVars, snapVars>>
    \/ /\ MonitorStart
       /\ UNCHANGED <<threadVars, callVars, breakoutVars, helperVars, snapVars>>
    \/ /\ MonitorBar
       /\ UNCHANGED <<threadVars, callVars, breakoutVars, helperVars, snapVars>>
    \/ /\ MonitorTimeout
       /\ UNCHANGED <<threadVars, callVars, breakoutVars, helperVars, snapVars>>
    \/ /\ \E provider_type \in ProviderTypes, outcome \in GexOutcomes, ids \in ProviderIds :
             StateAnalyzeGex(provider_type, outcome, ids)
       /\ UNCHANGED <<threadVars, callVars, breakoutVars, helperVars, snapVars>>
    \/ /\ StateExecuteTrade
       /\ UNCHANGED <<threadVars, callVars, breakoutVars, helperVars, snapVars>>
    \/ /\ RunFinally
       /\ UNCHANGED <<threadVars, callVars, breakoutVars, helperVars, snapVars>>
    \/ /\ ShutdownCall
       /\ UNCHANGED <<threadVars, callVars, breakoutVars, helperVars, snapVars>>
    \/ /\ RangeItemRaises
       /\ UNCHANGED <<threadVars, callVars, breakoutVars, helperVars, snapVars>>
    \/ /\ MonitorBarRaises
       /\ UNCHANGED <<threadVars, callVars, breakoutVars, helperVars, snapVars>>
    \/ /\ ConnectionClosed
       /\ UNCHANGED <<threadVars, callVars, breakoutVars, helperVars, snapVars>>
    \/ /\ \E id \in hist_pending, data \in {"bar", "end"} : HistoricalData(id, data)
       /\ UNCHANGED <<threadVars, callVars, breakoutVars, helperVars, snapVars>>
    \/ /\ \E id \in subscriptions, verdict \in BarVerdicts : RealtimeBar(id, verdict)
       /\ UNCHANGED <<threadVars, callVars, breakoutVars, helperVars, snapVars>>

EngineSpec == EngineSpecInit /\ [][EngineNext]_vars

\* a step of the thread that runs run(): the loop, the handlers and the
\* finally block
EngineStep ==
    /\ \/ RunStart
       \/ StateConnectSeed
       \/ StateConnectDone
       \/ \E error \in {"ConnectionError", "OSError"} : StateConnectFail(error)
       \/ \E timezone_ok \in BOOLEAN : RangeStart(timezone_ok)
       \/ \E levels_found \in BOOLEAN : RangeItem(levels_found)
       \/ RangeTimeout
       \/ RangeItemRaises
       \/ MonitorStart
       \/ MonitorBar
       \/ MonitorTimeout
       \/ MonitorBarRaises
       \/ \E provider_type \in ProviderTypes, outcome \in GexOutcomes, ids \in ProviderIds :
             StateAnalyzeGex(provider_type, outcome, ids)
       \/ StateExecuteTrade
       \/ RunFinally
    /\ UNCHANGED <<threadVars, callVars, breakoutVars, helperVars, snapVars>>

\* the broker ends the answer to a historical data request
HistoricalDataEnd ==
    /\ \E id \in hist_pending : HistoricalData(id, "end")
    /\ UNCHANGED <<threadVars, callVars, breakoutVars, helperVars, snapVars>>

\* the thread that runs run() keeps running: whenever it can take a step, it
\* does; and the answer to a historical data request, which covers a fixed
\* span of time, does not go on for ever
EngineFairSpec ==
    /\ EngineSpecInit
    /\ [][EngineNext]_vars
    /\ WF_vars(EngineStep)
    /\ SF_vars(HistoricalDataEnd)

CallSpecInit ==
    ConnInit /\ ThreadInit /\ OMInit /\ EngineInit /\ CallInit /\ BreakoutInit /\ HelperIdle /\ SnapInit
CallNext ==
    \/ /\ \E seed \in Seeds : SeedCounter(seed)
       /\ UNCHANGED <<threadVars, omVars, engVars, callVars, breakoutVars, helperVars, snapVars>>
    \/ /\ MarkConnected
       /\ UNCHANGED <<threadVars, omVars, engVars, callVars, breakoutVars, helperVars, snapVars>>
    \/ \E kind \in RequestKinds : CallStart(kind)
    \/ GetPositionsStart
    \/ ResolveTake
    \/ UnderlyingPriceTake
    \/ ChainParamsTake
    \/ GetPositionsTake
    \/ CallTimeout
    \/ \E id \in requested["resolve_contract_details"], details \in {"details", "none"} :
          ContractDetails(id, details)
    \/ \E id \in requested["fetch_underlying_price"], tick_type \in TickTypes :
          TickPrice(id, tick_type)
    \/ \E id \in requested["fetch_option_chain_params"], params \in {"params", "empty"} :
          SecDefOptParams(id, params)
    \/ \E item \in {"position", "end"} : Position(item)

\* the foreground thread keeps running: whenever it can take a step, it does
CallFairSpec == CallSpecInit /\ [][CallNext]_vars /\ WF_vars(ForegroundStep)

BreakoutSpecInit ==
    ConnInit /\ ThreadInit /\ OMInit /\ EngineInit /\ CallInit /\ BreakoutInit /\ HelperIdle /\ SnapInit
BreakoutNext ==
    \/ /\ \E ts \in 0..MaxTimestamp, prices \in BarPrices : AddRealtimeBar(ts, prices)
       /\ UNCHANGED <<connVars, threadVars, omVars, engVars, callVars, helperVars, snapVars>>

BreakoutSpec == BreakoutSpecInit /\ [][BreakoutNext]_vars

HelperSpecInit ==
    ConnInit /\ ThreadInit /\ OMInit /\ EngineInit /\ CallInit /\ BreakoutInit /\ HelperInit /\ SnapInit
HelperNext ==
    \/ /\ RoundDownToTickCall
       /\ UNCHANGED <<connVars, threadVars, omVars, engVars, callVars, breakoutVars, snapVars>>
    \/ /\ MakeTradeDecisionCall
       /\ UNCHANGED <<connVars, threadVars, omVars, engVars, callVars, breakoutVars, snapVars>>
    \/ /\ GetAtmStrikeCall
       /\ UNCHANGED <<connVars, threadVars, omVars, engVars, callVars, breakoutVars, snapVars>>
    \/ /\ FetchOptionPriceCall
       /\ UNCHANGED <<connVars, threadVars, omVars, engVars, callVars, breakoutVars, snapVars>>
    \/ /\ CreateBracketOrdersCall
       /\ UNCHANGED <<connVars, threadVars, omVars, engVars, callVars, breakoutVars, snapVars>>
    \/ /\ ModifyStopLossCall
       /\ UNCHANGED <<connVars, threadVars, omVars, engVars, callVars, breakoutVars, snapVars>>

HelperSpec == HelperSpecInit /\ [][HelperNext]_vars

SnapshotInit ==
    ConnInit /\ ThreadInit /\ OMInit /\ EngineInit /\ CallInit /\ BreakoutInit /\ HelperIdle /\ SnapInit
SnapshotNext ==
    \/ /\ \E seed \in Seeds : SeedCounter(seed)
       /\ UNCHANGED <<threadVars, omVars, engVars, callVars, breakoutVars, helperVars, snapVars>>
    \/ /\ MarkConnected
       /\ UNCHANGED <<threadVars, omVars, engVars, callVars, breakoutVars, helperVars, snapVars>>
    \/ \E timeout \in 1..MaxTimeout : FetchMarketPrice(timeout)
    \/ DrainOldData
    \/ LoopCheck
    \/ \E elapsed \in 0..(PollInterval - 1) : PriceWait(elapsed)
    \/ PriceEmpty
    \/ \E elapsed \in 0..(PollInterval - 1) : SizeWait(elapsed)
    \/ SizeEmpty
    \/ \E id \in snap_requested, tick_type \in PriceTickTypes : MarketTickPrice(id, tick_type)
    \/ \E id \in snap_requested, tick_type \in SizeTickTypes : MarketTickSize(id, tick_type)

SnapshotSpec == SnapshotInit /\ [][SnapshotNext]_vars

(***************************************************************************)
(* Request-id allocator: claims C7, C8.                                    *)
(***************************************************************************)
RECURSIVE SumCounts(_, _)
\* the sum of the counts of the blocks of `log` reserved in epoch e
SumCounts(log, e) ==
    IF log = <<>> THEN 0
    ELSE (IF Head(log).epoch = e THEN Head(log).count ELSE 0) + SumCounts(Tail(log), e)

\* C7: the ids get_next_request_id hands out are strictly increasing over
\* the whole session, a disconnect followed by a reconnect included: a block
\* reserved later starts after every id of a block reserved earlier, so no id
\* is handed out twice.
C7_IdsStrictlyIncreasing ==
    \A i, j \in DOMAIN issued :
        i < j => issued[i].id + issued[i].count <= issued[j].id

\* C8: under every interleaving of concurrent get_next_request_id(count)
\* calls made while connected (between two seedings of the counter), each
\* call's block [id, id+count) is disjoint from every other call's block, and
\* once no call is inside the lock the counter has advanced from the seed by
\* exactly the sum of the counts.
C8_BlocksDisjoint ==
    /\ \A i, j \in DOMAIN issued :
          (i < j /\ issued[i].epoch = issued[j].epoch)
             => issued[i].id + issued[i].count <= issued[j].id
    /\ (request_id_lock = "free" /\ connects > 0)
          => next_request_id = epoch_seed + SumCounts(issued, connects)

\* two threads have each reserved a block in the same epoch, one of them of
\* several ids, and the counter is at rest
C8_Witness ==
    /\ request_id_lock = "free"
    /\ \E i, j \in DOMAIN issued :
          /\ i < j
          /\ issued[i].epoch = issued[j].epoch
          /\ issued[i].by # issued[j].by
          /\ issued[i].count > 1

(***************************************************************************)
(* Order manager: claims C3, C4, C5, C6 (specification OMSpec).            *)
(***************************************************************************)
\* C3: for every tracked position, no step (a manage_open_positions pass, a
\* drained status event, anything else) lowers its stored stop-loss price or
\* its stored milestone level.
C3_StopAndMilestoneNeverDecrease ==
    [][\A p \in DOMAIN active_positions \cap DOMAIN active_positions' :
          /\ active_positions'[p].stop_loss_price >= active_positions[p].stop_loss_price
          /\ active_positions'[p].last_milestone_level >=
                active_positions[p].last_milestone_level]_vars

\* a pass has ended without a modification for a position whose stop was
\* raised by an earlier pass
C3_Witness ==
    /\ last_op = "manage_open_positions"
    /\ mpc = "idle"
    /\ submitted = <<>>
    /\ \E p \in DOMAIN active_positions :
          /\ active_positions[p].last_milestone_level >= 1
          /\ active_positions[p].stop_loss_price > StopLossPrice(200)

C1_OnlyDocumentedEdges ==
    [][(state # "INITIALIZING" /\ state' # state) =>
          \/ state' = "SHUTDOWN"
          \/ <<state, state'>> \in
                { <<"CONNECTING", "GETTING_OPENING_RANGE">>,
                  <<"GETTING_OPENING_RANGE", "MONITORING_BREAKOUT">>,
                  <<"MONITORING_BREAKOUT", "ANALYZING_GEX">>,
                  <<"ANALYZING_GEX", "PENDING_TRADE_EXECUTION">>,
                  <<"MONITORING_BREAKOUT", "CONNECTING">> }]_vars

\* the engine has gone through every stage and has shut down
C1_Witness ==
    /\ state = "SHUTDOWN"
    /\ epc = "done"
    /\ trade_due

\* C2: when _state_execute_trade finds order manager, expiration and signal
\* set, place_trade runs exactly once and the engine is then in SHUTDOWN; it
\* runs at no other time.
C2_PlacementInvokedOnce ==
    /\ (trade_due /\ state = "SHUTDOWN") => placements = 1
    /\ ~trade_due => placements = 0

\* C9: an item the engine takes from a broker queue and uses carries the
\* request id the engine reserved for the request it is waiting on.
C9_OnlyOwnIdAccepted ==
    last_accepted[1] = last_accepted[2]

(***************************************************************************)
(* Blocking calls: claim C10 (specification CallFairSpec).                 *)
(***************************************************************************)
\* C10: every blocking call that has started returns, whatever the broker
\* puts on the queues.
C10_EveryCallReturns ==
    (call_kind # "none") ~> (call_kind = "none")

(***************************************************************************)
(* Engine shutdown and error paths: claims C11, C12, C13, C14              *)
(* (specification EngineSpec).                                             *)
(***************************************************************************)
\* C11: over any sequence of shutdown() calls - the one of run()'s finally
\* block, in whatever state the loop was left, and those of later callers -
\* the first call disconnects the connector if it is connected and cancels
\* the tracked subscription if there is one; every later call disconnects
\* nothing, cancels nothing and changes nothing; after each call the state is
\* SHUTDOWN and the connector is disconnected.
C11_ShutdownIdempotent ==
    [][(shutdown_log' # shutdown_log) =>
          LET n == Len(shutdown_log')
              call == shutdown_log'[n]
          IN  /\ state' = "SHUTDOWN"
              /\ ~is_connected'
              /\ rt_bars_req_id' = NoId
              /\ n = 1 => /\ call.disconnected = is_connected
                          /\ call.cancelled = rt_bars_req_id
              /\ n > 1 => /\ ~call.disconnected
                          /\ call.cancelled = NoId
                          /\ UNCHANGED <<state, is_connected, rt_bars_req_id,
                                         subscriptions, hist_pending, link_up>>]_vars

\* the first shutdown disconnected and cancelled a subscription, and shutdown
\* has been called again since
C11_Witness ==
    /\ Len(shutdown_log) >= 2
    /\ shutdown_log[1].disconnected
    /\ shutdown_log[1].cancelled # NoId

C13_LeavingMonitoringCancels ==
    [][(state = "MONITORING_BREAKOUT" /\ state' \in {"ANALYZING_GEX", "CONNECTING"}) =>
          /\ rt_bars_req_id' = NoId
          /\ subscriptions' = {}]_vars

\* C14: when the socket to the broker has been lost while the engine
\* monitors, the wait for a bar that times out is followed by the state
\* CONNECTING.
C14_LostConnectionReturnsToConnecting ==
    [][(state = "MONITORING_BREAKOUT" /\ epc = "monitor" /\ ~link_up
          /\ realtime_bar_queue = <<>> /\ epc' = "loop") =>
          state' = "CONNECTING"]_vars

(***************************************************************************)
(* Engine progress: claim C15 (specification EngineFairSpec).              *)
(***************************************************************************)
\* C15: the engine leaves each of GETTING_OPENING_RANGE, MONITORING_BREAKOUT,
\* ANALYZING_GEX and PENDING_TRADE_EXECUTION (or, in this bounded model, runs
\* out of request ids).
C15_OnlyConnectingRetriesForever ==
    \A s \in {"GETTING_OPENING_RANGE", "MONITORING_BREAKOUT", "ANALYZING_GEX",
              "PENDING_TRADE_EXECUTION"} :
        (state = s) ~> (state # s \/ next_request_id >= MaxRequestId)

(***************************************************************************)
(* Opening range and GEX analysis: claims C16, C17, C18                    *)
(* (specification EngineSpec).                                             *)
(***************************************************************************)
\* C16: while _state_get_opening_range drains the queue, only the step that
\* takes the sentinel hands bars to the range calculator, and it hands over
\* the bars collected; any other step hands over none and computes no range;
\* and a wait that times out is followed by the state SHUTDOWN.
C16_BarsHandedOverAfterSentinel ==
    [][(epc = "range") =>
          LET sentinel == /\ historical_data_queue # <<>>
                          /\ Head(historical_data_queue)[2] = "end"
                          /\ historical_data_queue' = Tail(historical_data_queue)
              timeout == historical_data_queue = <<>> /\ epc' = "loop"
          IN  /\ sentinel => orb_bars' = orb_bars \cup collected
              /\ ~sentinel => (orb_bars' = orb_bars /\ orb_computed' = orb_computed)
              /\ timeout => state' = "SHUTDOWN"]_vars

\* a wait has timed out after bars had been collected: none was handed over
\* and the engine is in SHUTDOWN
C16_Witness ==
    /\ state = "SHUTDOWN"
    /\ epc = "loop"
    /\ collected # {}
    /\ orb_bars = {}
    /\ orb_computed = 0

C18_GexResultDecidesNextState ==
    [][(gex_analysed' # gex_analysed) =>
          LET analysis == gex_analysed'[Len(gex_analysed')]
          IN  IF analysis[1] \in {0, 1, 2} /\ analysis[2] = "valid"
                THEN state' = "PENDING_TRADE_EXECUTION" /\ option_expiration' # ""
                ELSE state' = "SHUTDOWN" \/ epc' = "raised"]_vars

(***************************************************************************)
(* Breakout detection: claims C19, C20 (specification BreakoutSpec).       *)
(* The strategy's "NO SIGNAL", "BULLISH" and "BEARISH" are the HOLD, BUY   *)
(* and SELL of the claims.                                                 *)
(***************************************************************************)
\* the start of the clock-aligned window a timestamp falls in
WindowFloor(ts) == (ts \div AggregationSeconds) * AggregationSeconds

\* the bar given falls in a later window than the candle in progress
ClosesWindow(ts) ==
    /\ five_second_bars # <<>>
    /\ WindowFloor(ts) > WindowFloor(five_second_bars[1].timestamp)

\* C19: add_realtime_bar returns a signal other than HOLD only for a bar
\* that falls in a later window than the candle in progress; a bar of the
\* window of the candle in progress, and a bar that finds no candle in
\* progress, get HOLD.
C19_SignalOnlyOnSuccessorBar ==
    [][(last_bar' # last_bar) =>
          (signal' # "NO SIGNAL" => ClosesWindow(last_bar'.timestamp))]_vars

\* C20: a bar that falls in the window of the candle in progress is folded
\* into it, however many bars the candle holds; a bar that falls in a later
\* window closes the candle - the call returns what the breakout check says
\* of the candle of the bars collected - and starts a candle in progress
\* whose first bar it is and whose timestamp is the start of its window.
C20_BarsFoldIntoClockAlignedWindow ==
    [][(last_bar' # last_bar /\ five_second_bars # <<>>) =>
          IF ClosesWindow(last_bar'.timestamp)
            THEN /\ signal' = CheckBreakout(AggregateBars(five_second_bars), OrbHigh, OrbLow)
                 /\ Len(five_second_bars') = 1
                 /\ WindowStart(five_second_bars'[1].timestamp) =
                       WindowFloor(last_bar'.timestamp)
            ELSE five_second_bars' = Append(five_second_bars, last_bar')]_vars

(***************************************************************************)
(* Claims on the breakout check and on the order manager's pure helpers.   *)
(***************************************************************************)
\* add_realtime_bar and check_breakout return one of the three strings of
\* the Signal literal; a str carries no price
NoPrice == 0 - 1

\* the price a caller can read from the value check_breakout returned
SignalPrice(returned_signal) == NoPrice

\* the candle add_realtime_bar completes with the bar it is given
CompletedCandle == AggregateBars(Append(five_second_bars, last_bar'))

\* C21: for every completed candle the signal is the bullish one, with the
\* candle's close as its price, exactly when close > open and low > range
\* high; the bearish one, with the candle's close as its price, exactly when
\* close < open and high < range low; the neutral one otherwise.  The
\* candle's open is its first bar's open, its high the maximum high, its low
\* the minimum low, its close the last bar's close.
C21_SignalAndPriceOfCompletedCandle ==
    [][(last_bar' # last_bar /\ Len(five_second_bars) = BarsToAggregate - 1
          /\ five_second_bars' = <<>>) =>
          LET candle == CompletedCandle
              bars == Append(five_second_bars, last_bar')
          IN  /\ candle.open = bars[1].open
              /\ candle.close = bars[Len(bars)].close
              /\ \A i \in DOMAIN bars : candle.high >= bars[i].high /\ candle.low <= bars[i].low
              /\ \E i \in DOMAIN bars : candle.high = bars[i].high
              /\ \E i \in DOMAIN bars : candle.low = bars[i].low
              /\ (signal' = "BULLISH") <=> (candle.close > candle.open /\ candle.low > OrbHigh)
              /\ (signal' = "BEARISH") <=> (candle.close < candle.open /\ candle.high < OrbLow)
              /\ signal' \in {"BULLISH", "BEARISH", "NO SIGNAL"}
              /\ (signal' # "NO SIGNAL") => SignalPrice(signal') = candle.close]_vars

\* the modifications a pass submitted for the stop-loss order of position p
StopModifications(p) ==
    {i \in DOMAIN submitted' :
        submitted'[i].orderId = active_positions[p].stop_loss_order_id}

BracketsOf(order_id) ==
    {p \in DOMAIN active_positions :
        order_id \in {p, active_positions[p].take_profit_order_id,
                      active_positions[p].stop_loss_order_id}}

\* C24: draining a rejection or cancellation (status Inactive, Cancelled or
\* ApiCancelled) of any order of a tracked bracket - the parent entry order as
\* well as a child - removes that position, leaves every other tracked
\* position unchanged, and the drain goes on with the events that follow.
C24_RejectedOrderRemovesPosition ==
    [][(mpc = "drain" /\ order_status_queue # <<>>
          /\ order_status_queue' = Tail(order_status_queue)
          /\ Head(order_status_queue).status \in {"Inactive", "Cancelled", "ApiCancelled"}
          /\ BracketsOf(Head(order_status_queue).orderId) # {}) =>
        LET affected == BracketsOf(Head(order_status_queue).orderId)
        IN  /\ \A p \in affected : p \notin DOMAIN active_positions'
            /\ \A p \in DOMAIN active_positions \ affected :
                  /\ p \in DOMAIN active_positions'
                  /\ active_positions'[p] = active_positions[p]
            /\ mpc' = "drain"]_vars

\* a step of place_trade: the order manager is between passes, the status
\* queue and the connection are left alone
PlaceTradeStep ==
    /\ mpc = "idle" /\ mpc' = "idle"
    /\ last_op' = "place_trade"
    /\ order_status_queue' = order_status_queue
    /\ is_connected' = is_connected
    /\ connects' = connects

\* C25: a place_trade that aborts - no strike to choose from, the contract
\* not resolved, no usable price - has submitted no order, has reserved none
\* of the three order ids (the counter moved only by the request ids of the
\* contract lookup and of the price request it made), and has left
\* active_positions as it was.
C25_AbortedPlacementLeavesNoTrace ==
    [][(PlaceTradeStep /\ submitted' = <<>>) =>
          /\ active_positions' = active_positions
          /\ next_request_id' - next_request_id \in 0..2
          /\ closed' = closed]_vars

\* a connected place_trade has aborted after the contract lookup and the
\* price request: two request ids are used, nothing is submitted or tracked
C25_Witness ==
    /\ last_op = "place_trade"
    /\ mpc = "idle"
    /\ is_connected
    /\ submitted = <<>>
    /\ DOMAIN active_positions = {}
    /\ closed = <<>>
    /\ next_request_id = epoch_seed + 2

(***************************************************************************)
(* Claims on the pure helpers (specification HelperSpec).                  *)
(***************************************************************************)
\* C26: _create_bracket_orders lowers a tick-rounded stop-loss price that is
\* at or above the entry price by exactly one tick, and leaves it as rounded
\* otherwise; for a parent action other than BUY it builds no orders.
C26_StopBelowEntryOrRejected ==
    (helper_call.kind = "_create_bracket_orders" /\ helper_result.returned) =>
        IF helper_call.action # "BUY" THEN helper_result.none
        ELSE LET raw == helper_call.entry_price * (100 - helper_call.stop_loss_pct)
                 tick == GetSpxTickSize(raw)
                 rounded == (raw \div (tick * 100)) * tick
             IN  /\ ~helper_result.none
                 /\ helper_result.value.auxPrice =
                       IF rounded >= helper_call.entry_price THEN rounded - tick
                       ELSE rounded

\* a bracket was built for an entry price on the tick with a stop-loss of 0 %:
\* the rounded stop is the entry price, the stop returned one tick below it
C26_Witness ==
    /\ helper_call.kind = "_create_bracket_orders"
    /\ helper_result.returned
    /\ helper_call.action = "BUY"
    /\ helper_call.stop_loss_pct = 0
    /\ helper_call.entry_price = 230
    /\ helper_result.value.auxPrice = 225

\* C27: the take-profit and stop-loss prices of a bracket are entry * (1 +
\* take_profit_pct / 100) and entry * (1 - stop_loss_pct / 100), each
\* rounded down to a multiple of the instrument's tick size (the min_tick
\* the call is given): entry 1.48, take-profit 50 %, stop-loss 20 %, tick
\* 0.01 give a take-profit limit of 2.22 and a stop price of 1.18.
C27_BracketPricesOnInstrumentTick ==
    (helper_call.kind = "_create_bracket_orders" /\ helper_result.returned
        /\ helper_call.action = "BUY" /\ helper_call.stop_loss_pct > 0) =>
        LET tick == helper_call.min_tick
            tp_raw == helper_call.entry_price * (100 + helper_call.take_profit_pct)
            sl_raw == helper_call.entry_price * (100 - helper_call.stop_loss_pct)
        IN  /\ helper_result.value.lmtPrice = (tp_raw \div (tick * 100)) * tick
            /\ helper_result.value.auxPrice = (sl_raw \div (tick * 100)) * tick

\* C28: _fetch_option_price returns the first usable value in the order ask,
\* last, previous close - a value that is missing or not positive (zero,
\* negative, the -1 of unavailable data) falls through to the next - and
\* returns no price only when none of the three is positive.
C28_FirstPositiveOfAskLastClose ==
    (helper_call.kind = "_fetch_option_price" /\ helper_result.returned) =>
        LET data == helper_call.market_data
        IN  IF data.ask > 0 THEN ~helper_result.none /\ helper_result.value = data.ask
            ELSE IF data.last > 0
              THEN ~helper_result.none /\ helper_result.value = data.last
            ELSE IF data.close > 0
              THEN ~helper_result.none /\ helper_result.value = data.close
            ELSE helper_result.none

\* C29: for a BUY and for a SELL signal alike, _make_trade_decision returns
\* the call when the GEX strike is above the spot price and the put
\* otherwise; it never returns 'no trade' for either signal.
C29_CallAboveSpotPutOtherwise ==
    (helper_call.kind = "_make_trade_decision" /\ helper_result.returned
        /\ helper_call.signal_type \in {"BUY", "SELL"}) =>
        /\ ~helper_result.none
        /\ helper_result.value =
              IF helper_call.strike_price > helper_call.spot_price THEN "C" ELSE "P"

\* a decision for each of the two bearish rows has been returned: the call for
\* a strike above the spot price
C29_Witness ==
    /\ helper_call.kind = "_make_trade_decision"
    /\ helper_result.returned
    /\ helper_call.signal_type = "SELL"
    /\ helper_call.strike_price > helper_call.spot_price
    /\ helper_result.value = "C"

\* C30: for a non-empty strike list _get_atm_strike returns an element of the
\* list with the smallest abs(strike - spot), the first such element in the
\* order of the list; for an empty list it returns no strike.
C30_FirstClosestStrike ==
    (helper_call.kind = "_get_atm_strike" /\ helper_result.returned) =>
        LET strikes == helper_call.strike_list
            spot == helper_call.spot_price
        IN  IF strikes = <<>> THEN helper_result.none
            ELSE /\ ~helper_result.none
                 /\ \E i \in DOMAIN strikes :
                       /\ strikes[i] = helper_result.value
                       /\ \A j \in DOMAIN strikes :
                             Abs(strikes[i] - spot) <= Abs(strikes[j] - spot)
                       /\ \A j \in 1..(i - 1) :
                             Abs(strikes[j] - spot) > Abs(strikes[i] - spot)

\* a strike was returned for a list whose first two strikes, 455 before 445,
\* are equally close to a spot price of 450: the first of them
C30_Witness ==
    /\ helper_call.kind = "_get_atm_strike"
    /\ helper_result.returned
    /\ helper_call.spot_price = 450
    /\ Len(helper_call.strike_list) >= 2
    /\ helper_call.strike_list[1] = 455
    /\ helper_call.strike_list[2] = 445
    /\ helper_result.value = 455

C32_TimeoutBeforeSentinelFails ==
    [][(call_kind = "get_positions" /\ call_kind' = "none"
          /\ returned' = "positions") =>
          (position_queue # <<>> /\ Head(position_queue) = "end")]_vars

\* C33: a GEX analysis whose provider meets an error (the transport fails,
\* the response is malformed, the broker is disconnected, a contract is not
\* resolved, the data collection times out) reaches the caller as an error
\* the provider raises, not as an ordinary returned tuple with strike zero.
C33_ProviderFailureIsRaised ==
    [][(gex_analysed' # gex_analysed) =>
          LET analysis == gex_analysed'[Len(gex_analysed')]
          IN  (analysis[1] \in {0, 1, 2} /\ analysis[2] = "error") =>
                 GetMaxGammaStrike(analysis[1], analysis[2])
                     \in {"caught_error", "uncaught_error"}]_vars

TerminalChildEvent(event) ==
    /\ event.status \in {"Filled", "Cancelled", "ApiCancelled", "Inactive"}
    /\ \E p \in DOMAIN active_positions :
          event.orderId \in {active_positions[p].take_profit_order_id,
                             active_positions[p].stop_loss_order_id}

OnlyOwnTicksAdded ==
    \A key \in snap_market_data' \ snap_market_data :
        \E queue \in {tick_price_queue, tick_size_queue} :
            /\ queue # <<>>
            /\ Head(queue)[1] = snap_req_id
            /\ Head(queue)[2] \in DOMAIN TICK_TYPE_MAP
            /\ TICK_TYPE_MAP[Head(queue)[2]] = key

\* a step that ends the call returns the dictionary collected so far
ReturnsCollected ==
    snap_pc # "idle" /\ snap_pc' = "idle" => snapshot' = Value(snap_market_data')

\* what C36 says apart from the bound on the time of the return
SnapshotBestEffort ==
    /\ [](snap_pc \in {"loop", "price"} => ~(EarlyExitKeys \subseteq snap_market_data))
    /\ [][snap_pc = "idle" \/ OnlyOwnTicksAdded]_vars
    /\ [][ReturnsCollected]_vars

C40_DrainKeepsOwnTicks ==
    [][snap_pc = "drain" /\ snap_pc' = "loop" =>
          \A queue \in {tick_price_queue, tick_size_queue} :
              \A i \in 1..Len(queue) : queue[i][1] # snap_req_id]_vars

\* C37: at most one real-time bar subscription opened by the engine is active
\* at the broker at any moment.  After 60 s without a bar the state is kept,
\* and the next step subscribes under a new id while the subscription of the
\* step before is still active.
C37_AtMostOneSubscription ==
    Cardinality(subscriptions) <= 1

\* C38: the prices of a bracket built for a BUY parent with positive
\* take-profit and stop-loss percentages are ordered
\* 0 < stop-loss price < entry limit price < take-profit price.  For an entry
\* of 0.05 both raw prices round down on the 0.05 tick: the take-profit limit
\* is the entry price and the stop price is 0.
C38_BracketPricesOrdered ==
    (helper_call.kind = "_create_bracket_orders" /\ helper_result.returned
        /\ helper_call.action = "BUY" /\ helper_call.take_profit_pct > 0
        /\ helper_call.stop_loss_pct > 0) =>
        /\ 0 < helper_result.value.auxPrice
        /\ helper_result.value.auxPrice < helper_call.entry_price
        /\ helper_call.entry_price < helper_result.value.lmtPrice

\* C39: for positive activation and trail percentages, the stop price of a
\* trailing-stop modification is strictly below the market price that
\* triggered it.  With a trail percentage above the activation percentage the
\* stop climbs faster than the milestones: average cost 2.00, price 2.30,
\* activation 10, trail 50 and stop-loss 20 give a new stop of 2.60.
C39_NewStopBelowMarket ==
    (helper_call.kind = "_modify_stop_loss" /\ helper_result.returned
        /\ ~helper_result.none
        /\ helper_call.activation_pct > 0 /\ helper_call.trail_pct > 0) =>
        helper_result.value < helper_call.current_price

====
